---- MODULE Spec2Model ----
(***************************************************************************)
(* Model of the inference engine of the Sparsha backend:                   *)
(*   sparsha-web/Backend/model_predictor.py                                *)
(* The process-wide singleton (get_predictor), the constructor with        *)
(* checkpoint loading, and predict with its optional Grad-CAM pass, run by *)
(* several request threads.                                                *)
(*   Spec     : request threads sharing the singleton                      *)
(*   LoadSpec : construction alone, over many checkpoint contents          *)
(*   RankSpec : one client, over networks of several class counts          *)
(*   PreSpec  : _preprocess alone, over many byte payloads                 *)
(*   LiveSpec : two request threads that call for ever, with a fair lock   *)
(*   WaitSpec : the same threads with a lock that promises no turn         *)
(***************************************************************************)
EXTENDS Integers, Sequences, FiniteSets, TLC

\* ------------------------------------------------------------------ bounds
NumThreads == 2
\* requests served in a run, over all threads
MaxCalls == 2

Threads == 1..NumThreads

\* Python's None where a string may stand
None == "None"
\* None where an object reference or a lock holder may stand
NoRef == 0
\* None where an overlay may stand
NoImage == <<>>
\* value of locals that are not bound yet
NoResult == [pending |-> TRUE]
NoTop == [top_predictions |-> <<>>, class_idx |-> -1]

\* ------------------------------------------------------------ configuration
IMAGE_SIZE == 380

MODEL_FILENAMES == <<"sparsha_exp4_B4_epoch_19.pt", "sparsha_exp4_epoch_19.pt">>

DEFAULT_CLASS_NAMES ==
  << "acne", "actinic_keratosis", "alopecia_areata", "basal_cell_carcinoma",
     "bullous_dermatosis", "cellulitis", "chickenpox", "eczema",
     "folliculitis", "herpes", "hidradenitis_suppurativa", "hives",
     "impetigo", "keratosis_pilaris", "lichen_planus", "melanoma",
     "molluscum_contagiosum", "psoriasis", "rosacea", "scabies",
     "seborrheic_dermatitis", "shingles", "vitiligo" >>

\* Messages an exception raised by the numeric runtime may carry; str(exc)
\* of an exception built without arguments is the empty string.
ExcMsgs == {"", "CUDA out of memory"}

\* str(TORCH_IMPORT_ERROR) when the import of torch failed
TORCH_IMPORT_ERROR == "No module named 'torch'"

\* ------------------------------------------------------------- environment
\* Python values found in a checkpoint file.  A dict is the sequence of its
\* items <<key, value>> in insertion order; ktype is the type of its keys
\* ("str", "int"), vtype the type its values share ("int", "str", "tensor")
\* or "mixed".  A top-level key or a key of a parameter mapping is the
\* sequence of its dot-separated parts.
Dict(ktype, vtype, entries) ==
  [tag |-> "dict", ktype |-> ktype, vtype |-> vtype, entries |-> entries]
List(items) == [tag |-> "list", items |-> items]
\* torch.Tensor whose shape[0] is n
Tensor(n) == [tag |-> "tensor", shape |-> <<n>>]
\* an object that is neither a dict nor a list and has no shape
Other == [tag |-> "other"]

\* key in d
Has(d, key) == \E i \in 1..Len(d.entries) : d.entries[i][1] = key
\* d[key]
Get(d, key) == d.entries[CHOOSE i \in 1..Len(d.entries) : d.entries[i][1] = key][2]

CLASSIFIER_WEIGHT == <<"classifier", "1", "weight">>
CLASSIFIER_BIAS == <<"classifier", "1", "bias">>

\* parameter mapping of a network with n output classes, saved from a
\* DataParallel wrapper when prefixed
StateDict(n, prefixed) ==
  LET pre == IF prefixed THEN <<"module">> ELSE <<>>
  IN Dict("str", "tensor", << <<pre \o <<"features", "0", "0", "weight">>, Tensor(48)>>,
                       <<pre \o CLASSIFIER_WEIGHT, Tensor(n)>>,
                       <<pre \o CLASSIFIER_BIAS, Tensor(n)>> >>)

\* Behaviours of a trained network, named by the shape of its softmax output
Profiles == {"peaked", "uniform", "certain", "pair", "tiny", "ramp", "dyadic"}

\* What the checkpoint file holds.
\*   raises      : message of the exception torch.load raises, or None
\*   obj         : the unpickled object
\*   weights     : profile of the network the parameters make
\*   features_ok : model.features[-1] can be taken
Checkpoint(raises, obj, weights, features_ok) ==
  [raises |-> raises, obj |-> obj, weights |-> weights, features_ok |-> features_ok]

CkptOk ==
  Checkpoint(None, Dict("str", "mixed", << <<(<<"epoch">>), Other>>,
                                    <<(<<"state_dict">>), StateDict(3, FALSE)>> >>),
             "peaked", TRUE)
Checkpoints ==
  { CkptOk,
    Checkpoint(None, StateDict(25, TRUE), "peaked", FALSE),
    Checkpoint(None, Other, "peaked", TRUE),
    Checkpoint(None,
               Dict("str", "tensor",
                    << <<(<<"features", "0", "0", "weight">>), Tensor(24)>>,
                       <<CLASSIFIER_WEIGHT, Tensor(3)>> >>),
               "peaked", TRUE),
    Checkpoint("", Other, "peaked", TRUE),
    Checkpoint("invalid load key", Other, "peaked", TRUE) }

\* Process environments a run may start in: the two import flags, the set of
\* candidate files present (indices of MODEL_FILENAMES) and the checkpoint
\* content.
Environments ==
  { [torch |-> FALSE, mpl |-> TRUE,  present |-> {1},    ckpt |-> CkptOk],
    [torch |-> FALSE, mpl |-> TRUE,  present |-> {},     ckpt |-> CkptOk],
    [torch |-> TRUE,  mpl |-> TRUE,  present |-> {},     ckpt |-> CkptOk],
    [torch |-> TRUE,  mpl |-> TRUE,  present |-> {1, 2}, ckpt |-> CkptOk],
    [torch |-> TRUE,  mpl |-> FALSE, present |-> {2},    ckpt |-> CkptOk] }
  \cup
  { [torch |-> TRUE, mpl |-> TRUE, present |-> {1}, ckpt |-> c] :
      c \in Checkpoints \ {CkptOk} }

\* Image payloads a request may carry: zero-length bytes, bytes Pillow cannot
\* decode, and decodable images.
ValidImages == {"imgA", "imgB"}
Images == {"empty", "corrupt"} \cup ValidImages

VARIABLES
  TORCH_AVAILABLE,      \* module-level import flag
  MATPLOTLIB_AVAILABLE, \* module-level import flag
  files,                \* indices of MODEL_FILENAMES that exist on disk
  checkpoint,           \* content of the checkpoint file
  PREDICTOR_INSTANCE,   \* _PREDICTOR_INSTANCE: None or a reference into objs
  PREDICTOR_LOCK,       \* _PREDICTOR_LOCK: None or the holding thread
  objs,                 \* heap of constructed SkinDiseasePredictor objects
  pc,                   \* position of each thread
  calls,                \* number of requests each thread has started
  image_bytes,          \* argument of the running predict call
  include_gradcam,      \* argument of the running predict call
  predictor,            \* value get_predictor returned to the thread
  created,              \* object built at line 421, not yet stored
  batch,                \* preprocess result: None or the decoded image
  top,                  \* top_predictions and indices[0] of the running call
  gradcam_image,        \* local of predict
  exc,                  \* message of the exception in flight, or None
  result,               \* value the last predict call returned
  trace                 \* what the running call has done so far

envvars == <<TORCH_AVAILABLE, MATPLOTLIB_AVAILABLE, files, checkpoint>>
globals == <<PREDICTOR_INSTANCE, PREDICTOR_LOCK>>
locals == <<image_bytes, include_gradcam, predictor, created, batch, top,
            gradcam_image, exc, result, trace>>
vars == <<envvars, globals, objs, pc, calls, locals>>

\* ----------------------------------------------------------- pure helpers
RECURSIVE JoinNames(_, _)
\* ", ".join(names[i..])
JoinNames(names, i) ==
  IF i > Len(names) THEN ""
  ELSE IF i = Len(names) THEN names[i]
  ELSE names[i] \o ", " \o JoinNames(names, i + 1)

\* a search that keeps the last existing candidate
resolve_last_existing ==
  IF \E i \in 1..Len(MODEL_FILENAMES) : i \in files
  THEN MODEL_FILENAMES[CHOOSE i \in 1..Len(MODEL_FILENAMES) :
                          i \in files /\ \A j \in (i + 1)..Len(MODEL_FILENAMES) : j \notin files]
  ELSE None

\* _resolve_model_path: first existing candidate, in list order
resolve_model_path ==
  IF \E i \in 1..Len(MODEL_FILENAMES) : i \in files
  THEN MODEL_FILENAMES[CHOOSE i \in 1..Len(MODEL_FILENAMES) :
                          i \in files /\ \A j \in 1..(i - 1) : j \notin files]
  ELSE None

\* f"class_{idx}"
ClassLabel(idx) == "class_" \o ToString(idx)

\* a load that keeps the label list whatever the class count is
ReconcileNone(names, num_classes) == names

\* reconciliation that cuts a long list and leaves a short one as it is
ReconcileTruncateOnly(names, num_classes) ==
  IF Len(names) < num_classes THEN names
  ELSE SubSeq(names, 1, num_classes)

\* class-count reconciliation of _load_model; positions are 1-based here,
\* position p holds the label of class index p - 1
Reconcile(names, num_classes) ==
  IF Len(names) < num_classes
  THEN [p \in 1..num_classes |->
          IF p <= Len(names) THEN names[p] ELSE ClassLabel(p - 1)]
  ELSE SubSeq(names, 1, num_classes)

\* None where a parameter mapping may stand
NoDict == [tag |-> "none"]

\* fields of a predictor right after the assignments of __init__ 105..122;
\* num_classes and params are the width of the model's classifier and the
\* mapping load_state_dict was given
NewPredictor ==
  [ model_path    |-> resolve_model_path,
    model         |-> None,
    class_names   |-> DEFAULT_CLASS_NAMES,
    lock          |-> NoRef,
    is_loaded     |-> FALSE,
    load_error    |-> None,
    method_id     |-> "ml_model",
    method_name   |-> "efficientnet_b4",
    gradcam_layer |-> None,
    num_classes   |-> 0,
    params        |-> NoDict,
    hooks         |-> {} ]

\* ------------------------------------------------------ checkpoint parsing
\* None where a list may stand; the one caller of _extract_class_names tests
\* the truth value only, which None and [] share
NoList == <<>>
\* None where a class count may stand
NoCount == -1

\* keys _extract_class_names probes, in order
meta_keys == << <<"class_to_idx">>, <<"classes">>, <<"class_names">>, <<"idx_to_class">> >>
\* the probed keys with the bare-network keys tried first
STATE_KEYS_NetFirst ==
  << <<"net">>, <<"model">>, <<"model_state_dict">>, <<"state_dict">> >>

\* keys _extract_state_dict probes, in order
STATE_KEYS == << <<"state_dict">>, <<"model_state_dict">>, <<"model">>, <<"net">> >>

\* label strings of the checkpoints considered, in Python's str order
NameOrder == <<"acne", "eczema", "melanoma">>

\* position of a dict value in the order sorted() compares it by
SortKey(vtype, v) ==
  IF vtype = "int" THEN v
  ELSE CHOOSE i \in 1..Len(NameOrder) : NameOrder[i] = v

Remove(s, i) == SubSeq(s, 1, i - 1) \o SubSeq(s, i + 1, Len(s))

RECURSIVE SortedItems(_, _)
\* sorted(items, key=lambda item: item[1]); the sort is stable, and one
\* item or none is compared with nothing
SortedItems(vtype, items) ==
  IF Len(items) <= 1 THEN items
  ELSE LET first == CHOOSE i \in 1..Len(items) :
                      \A j \in 1..Len(items) :
                         \/ SortKey(vtype, items[i][2]) < SortKey(vtype, items[j][2])
                         \/ /\ SortKey(vtype, items[i][2]) = SortKey(vtype, items[j][2])
                            /\ i <= j
       IN <<items[first]>> \o SortedItems(vtype, Remove(items, first))

\* sorted() raises TypeError when it has to compare values of unlike types
Sortable(data) == data.vtype \in {"int", "str"} \/ Len(data.entries) <= 1

\* an element of a recovered label list; an int k is written str(k)
Element(ktype, k) == IF ktype = "int" THEN ToString(k) ELSE k

\* [name for name, _ in sorted(data.items(), key=lambda item: item[1])]
KeysByValue(data) ==
  LET items == SortedItems(data.vtype, data.entries)
  IN [i \in 1..Len(items) |-> Element(data.ktype, items[i][1])]

RECURSIVE ProbeNames(_, _)
\* the loop of _extract_class_names from meta_keys[i] on
ProbeNames(obj, i) ==
  IF i > Len(meta_keys) THEN NoList
  ELSE IF ~Has(obj, meta_keys[i]) THEN ProbeNames(obj, i + 1)
  ELSE LET data == Get(obj, meta_keys[i])
       IN IF data.tag = "dict"
          THEN IF Sortable(data) THEN KeysByValue(data)
               ELSE ProbeNames(obj, i + 1)
          ELSE IF data.tag = "list" THEN data.items
          ELSE ProbeNames(obj, i + 1)

\* _extract_class_names
extract_class_names(obj) ==
  IF obj.tag # "dict" THEN NoList ELSE ProbeNames(obj, 1)

\* key.replace("module.", "") if key.startswith("module.") else key
StripKeyEvery(key) ==
  IF Len(key) >= 2 /\ key[1] = "module"
  THEN SelectSeq(key, LAMBDA part : part # "module")
  ELSE key

\* key.replace("module.", "", 1) if key.startswith("module.") else key
StripKey(key) ==
  IF Len(key) >= 2 /\ key[1] = "module" THEN Tail(key) ELSE key

\* cleaned[key] = value on the item sequence of a dict
Put(entries, key, value) ==
  IF \E i \in 1..Len(entries) : entries[i][1] = key
  THEN [i \in 1..Len(entries) |->
          IF entries[i][1] = key THEN <<key, value>> ELSE entries[i]]
  ELSE Append(entries, <<key, value>>)

RECURSIVE StripFrom(_, _, _)
\* the loop of _strip_module_prefix from item i on
StripFrom(entries, i, cleaned) ==
  IF i > Len(entries) THEN cleaned
  ELSE StripFrom(entries, i + 1,
                 Put(cleaned, StripKey(entries[i][1]), entries[i][2]))

\* _strip_module_prefix
strip_module_prefix(d) == Dict(d.ktype, d.vtype, StripFrom(d.entries, 1, <<>>))

\* the probed keys that hold a dict in the wrapper: positions in STATE_KEYS
StateKeyHits(obj) ==
  { i \in 1..Len(STATE_KEYS) :
      Has(obj, STATE_KEYS[i]) /\ Get(obj, STATE_KEYS[i]).tag = "dict" }

\* _extract_state_dict
extract_state_dict(obj) ==
  IF obj.tag # "dict" THEN NoDict
  ELSE IF StateKeyHits(obj) # {}
  THEN LET first == CHOOSE i \in StateKeyHits(obj) :
                       \A j \in StateKeyHits(obj) : i <= j
       IN strip_module_prefix(Get(obj, STATE_KEYS[first]))
  ELSE strip_module_prefix(obj)

\* _infer_num_classes
infer_num_classes(state_dict) ==
  IF Has(state_dict, CLASSIFIER_WEIGHT)
     /\ Get(state_dict, CLASSIFIER_WEIGHT).tag = "tensor"
  THEN Get(state_dict, CLASSIFIER_WEIGHT).shape[1]
  ELSE IF Has(state_dict, CLASSIFIER_BIAS)
          /\ Get(state_dict, CLASSIFIER_BIAS).tag = "tensor"
  THEN Get(state_dict, CLASSIFIER_BIAS).shape[1]
  ELSE NoCount

\* the label list _load_model reconciles: the recovered one unless it is
\* None or empty (lines 157..159)
NamesBefore(p, obj) ==
  IF extract_class_names(obj) # NoList THEN extract_class_names(obj)
  ELSE p.class_names

\* lines 165..167
NumClasses(names, state_dict) ==
  IF infer_num_classes(state_dict) = NoCount THEN Len(names)
  ELSE infer_num_classes(state_dict)

\* The shape load_state_dict expects under a key of the network built at
\* lines 177..182 for n classes (NoCount: the network has no such key).
Expected(key, n) ==
  IF key = <<"features", "0", "0", "weight">> THEN 48
  ELSE IF key \in {CLASSIFIER_WEIGHT, CLASSIFIER_BIAS} THEN n
  ELSE NoCount

\* line 184: load_state_dict(state_dict, strict=False) raises when a key of
\* the network comes with something that is not a tensor of its shape;
\* missing and unexpected keys only make warnings.
LoadStateDictRaises(state_dict, n) ==
  \E i \in 1..Len(state_dict.entries) :
     LET key == state_dict.entries[i][1]
         value == state_dict.entries[i][2]
     IN /\ Expected(key, n) # NoCount
        /\ \/ value.tag # "tensor"
           \/ value.shape # <<Expected(key, n)>>

SIZE_MISMATCH == "Error(s) in loading state_dict for EfficientNet"

\* an except clause that forgets the message
FailSilent(p, message) == [p EXCEPT !.is_loaded = FALSE]

\* lines 204..207: the except clause of _load_model
Fail(p, message) == [p EXCEPT !.load_error = message, !.is_loaded = FALSE]

\* None where a probed key may stand
NoKey == <<>>

RECURSIVE ProbeListKey(_, _)
\* the key under which the loop of _extract_class_names, from meta_keys[i]
\* on, finds the list it returns as it is (lines 252..253); NoKey when it
\* returns a list of its own making or None
ProbeListKey(obj, i) ==
  IF i > Len(meta_keys) THEN NoKey
  ELSE IF ~Has(obj, meta_keys[i]) THEN ProbeListKey(obj, i + 1)
  ELSE LET data == Get(obj, meta_keys[i])
       IN IF data.tag = "dict"
          THEN IF Sortable(data) THEN NoKey
               ELSE ProbeListKey(obj, i + 1)
          ELSE IF data.tag = "list" THEN meta_keys[i]
          ELSE ProbeListKey(obj, i + 1)

\* The key of the mapping given to load_state_dict whose value is the very
\* list object self.class_names names after line 159: the checkpoint is
\* itself the mapping (no probed key of _extract_state_dict holds a dict),
\* _extract_class_names returned one of its lists, not empty, and
\* _strip_module_prefix put no other value under that key afterwards.
\* NoKey when the two share no object.
SharedListKey(obj) ==
  IF obj.tag # "dict" \/ StateKeyHits(obj) # {} \/ extract_class_names(obj) = NoList
  THEN NoKey
  ELSE LET key == ProbeListKey(obj, 1)
       IN IF key = NoKey THEN NoKey
          ELSE LET at == CHOOSE i \in 1..Len(obj.entries) : obj.entries[i][1] = key
               IN IF \A e \in (at + 1)..Len(obj.entries) :
                        StripKey(obj.entries[e][1]) # key
                  THEN key ELSE NoKey

\* lines 170..173 seen from the mapping: class_names.append grows the list
\* in place, so a mapping that holds the same list holds the grown one
\* (line 175 makes a new list and leaves the mapping as it was)
AfterAppend(obj, state_dict, names, n) ==
  IF SharedListKey(obj) # NoKey /\ Len(names) < n
  THEN [state_dict EXCEPT !.entries =
          Put(state_dict.entries, SharedListKey(obj), List(Reconcile(names, n)))]
  ELSE state_dict

\* _load_model applied to a fresh predictor p; params is the mapping as
\* load_state_dict gets it at line 184
load_model(p) ==
  IF checkpoint.raises # None
  THEN Fail(p, checkpoint.raises)
  ELSE LET names == NamesBefore(p, checkpoint.obj)
           state_dict == extract_state_dict(checkpoint.obj)
       IN IF state_dict = NoDict
          THEN Fail([p EXCEPT !.class_names = names],
                    "Checkpoint did not contain a state_dict")
          ELSE LET n == NumClasses(names, state_dict)
                   given == AfterAppend(checkpoint.obj, state_dict, names, n)
               IN IF LoadStateDictRaises(given, n)
                  THEN Fail([p EXCEPT !.class_names = Reconcile(names, n),
                                      !.params = given],
                            SIZE_MISMATCH)
                  ELSE
                  [p EXCEPT !.class_names = Reconcile(names, n),
                            !.num_classes = n,
                            !.model = checkpoint.weights,
                            !.params = given,
                            !.gradcam_layer = IF checkpoint.features_ok
                                              THEN "features[-1]" ELSE None,
                            !.is_loaded = TRUE]

\* SkinDiseasePredictor(): the object the constructor returns
Construct ==
  IF ~TORCH_AVAILABLE
  THEN [NewPredictor EXCEPT !.load_error =
          "PyTorch is not installed: " \o TORCH_IMPORT_ERROR]
  ELSE IF resolve_model_path = None
  THEN [NewPredictor EXCEPT !.load_error =
          "Model file not found. Expected one of: " \o JoinNames(MODEL_FILENAMES, 1)]
  ELSE load_model(NewPredictor)

\* ---------------------------------------------------------------- inference
\* the left operand alone, without the fallback
PyOrNoFallback(x, d) == x

\* Python's `x or d` on an Optional[str]
PyOr(x, d) == IF x = None \/ x = "" THEN d ELSE x

Failure(msg) == [success |-> FALSE, error |-> msg]

\* softmax output of the loaded network for a decoded image, in millionths;
\* a fixed network is a function of its input.  Class index i is position
\* i + 1.
Probabilities(image, n) ==
  LET fav == IF image = "imgA" THEN 1 ELSE n
      rest == [i \in 1..n |-> IF i = fav THEN 0 ELSE 1000 * i + 7 * (n - i) + 49]
      RECURSIVE Sum(_)
      Sum(i) == IF i = 0 THEN 0 ELSE rest[i] + Sum(i - 1)
  IN [i \in 1..n |-> IF i = fav THEN 1000000 - Sum(n) ELSE rest[i]]

\* The exponentials of the logits (line 314) of the network a checkpoint of
\* the given profile makes, for a decoded image and n output classes: one
\* class far ahead, all classes level, one class certain, two classes level
\* at the top, exponentials that rise with the class index and whose sum
\* does not divide the scale, probabilities that are multiples of 1/32 (some
\* of them an exact half of a hundredth of a percent, as 5/32 = 15.625 %),
\* or small scores on either side of a rounding step.
Exponentials(weights, image, n) ==
  LET fav == IF image = "imgA" THEN 1 ELSE n
  IN CASE weights = "peaked" -> Probabilities(image, n)
       [] weights = "uniform" ->
            [i \in 1..n |-> 1000000 \div n + (IF i <= 1000000 % n THEN 1 ELSE 0)]
       [] weights = "certain" ->
            [i \in 1..n |-> IF i = fav THEN 1000000 ELSE 0]
       [] weights = "pair" ->
            [i \in 1..n |-> IF n = 1 THEN 1000000
                            ELSE IF i \in {1, n} THEN 500000 - 5001 * (n - 2)
                            ELSE 10002]
       [] weights = "ramp" -> [i \in 1..n |-> i]
       [] weights = "dyadic" ->
            [i \in 1..n |-> IF i = 1 /\ n <= 7 THEN 33 - (n * (n + 1)) \div 2 ELSE i]
       [] OTHER ->
            LET small == [i \in 1..n |-> IF i % 2 = 0 THEN 49 + 100 * (i \div 2 - 1)
                                         ELSE 51 + 100 * ((i - 3) \div 2)]
                RECURSIVE Sum(_)
                Sum(i) == IF i <= 1 THEN 0 ELSE small[i] + Sum(i - 1)
            IN [i \in 1..n |-> IF i = 1 THEN 1000000 - Sum(n) ELSE small[i]]

\* probabilities are in millionths
Scale == 1000000

RECURSIVE SeqSum(_)
SeqSum(s) == IF s = <<>> THEN 0 ELSE s[1] + SeqSum(Tail(s))

\* F.softmax(logits, dim=0): the batch of one is normalized, class by class
SoftmaxOverBatch(e) == [i \in 1..Len(e) |-> Scale]

\* line 315: F.softmax(logits, dim=1), each exponential over the sum of the
\* exponentials of all classes, rounded down to a millionth
\* (e * Scale \div sum, computed without leaving 32 bits)
Softmax(e) ==
  LET sum == SeqSum(e)
      q == Scale \div sum
      r == Scale % sum
  IN [i \in 1..Len(e) |-> e[i] * q + (e[i] * r) \div sum]

\* lines 314..315: the probabilities of the forward pass
Forward(weights, image, n) == Softmax(Exponentials(weights, image, n))

RECURSIVE TopKSmallest(_, _, _)
\* topk with largest=False
TopKSmallest(probs, k, taken) ==
  IF k = 0 THEN {<<>>}
  ELSE LET cand == DOMAIN probs \ taken
           least == { i \in cand : \A j \in cand : probs[i] <= probs[j] }
       IN UNION { { <<i>> \o rest : rest \in TopKSmallest(probs, k - 1, taken \cup {i}) } :
                  i \in least }

RECURSIVE TopK(_, _, _)
\* torch.topk: the index sequences it may return for the k largest entries
\* of probs outside `taken`, largest first.  The order of equal entries,
\* and which of them are kept at the cut, is left to the kernel: every
\* order is one of the outcomes.
TopK(probs, k, taken) ==
  IF k = 0 THEN {<<>>}
  ELSE LET cand == DOMAIN probs \ taken
           best == { i \in cand : \A j \in cand : probs[i] >= probs[j] }
       IN UNION { { <<i>> \o rest : rest \in TopK(probs, k - 1, taken \cup {i}) } :
                  i \in best }

Min(a, b) == IF a < b THEN a ELSE b

\* _idx_to_label, idx a 0-based class index
idx_to_label(p, idx) ==
  IF idx < 0 \/ idx >= Len(p.class_names) THEN ClassLabel(idx)
  ELSE p.class_names[idx + 1]

\* the percentage cut off after two decimals
ConfidenceTruncated(score) == {score \div 100}

\* round(float(score) * 100.0, 2), in hundredths of a percent, for the
\* floats whose millionths, the rest cut off, are score: the values line
\* 325 may give.  Below the half of a hundredth a float rounds down and
\* above it up.  At ...50 a float is the half itself only when a float can
\* hold that value (a number of millionths is a binary fraction exactly
\* when it is a multiple of 10^6 / 2^6 = 5^6), and then the even neighbour
\* is taken; every other float with these millionths lies above the half
\* and rounds up.
Confidence(score) ==
  LET q == score \div 100
      r == score % 100
      binary == score % (5 * 5 * 5 * 5 * 5 * 5) = 0
  IN IF r > 50 THEN {q + 1}
     ELSE IF r < 50 THEN {q}
     ELSE IF binary THEN {IF q % 2 = 1 THEN q + 1 ELSE q, q + 1}
     ELSE {q + 1}

RECURSIVE Rounded(_, _)
\* lines 321..327: the confidences of the ranked entries, one sequence for
\* every way their scores may round.  topk returns the floats largest
\* first and round never reverses an order, so the sequence never rises.
Rounded(probs, indices) ==
  IF indices = <<>> THEN {<<>>}
  ELSE UNION { { <<c>> \o rest :
                   rest \in { s \in Rounded(probs, Tail(indices)) :
                                s = <<>> \/ c >= s[1] } } :
               c \in Confidence(probs[indices[1]]) }

\* top_predictions for ranked indices and their confidences
Entries(p, indices, confidences) ==
  [r \in 1..Len(indices) |-> [disease    |-> idx_to_label(p, indices[r] - 1),
                              confidence |-> confidences[r]]]

\* a ranking that hands the last of the ranked indices to the generator
RankTargetsLast(p, probs) ==
  LET top_k == Min(5, Len(probs))
  IN UNION { { [ top_predictions |-> Entries(p, indices, confidences),
                 class_idx |-> indices[top_k] - 1 ] :
               confidences \in Rounded(probs, indices) } :
             indices \in TopK(probs, top_k, {}) }

\* lines 317..329: top_predictions and indices[0] for a probability
\* vector, one for every index sequence topk may return and every way the
\* scores may round
Rank(p, probs) ==
  LET top_k == Min(5, Len(probs))
  IN UNION { { [ top_predictions |-> Entries(p, indices, confidences),
                 class_idx |-> indices[1] - 1 ] :
               confidences \in Rounded(probs, indices) } :
             indices \in TopK(probs, top_k, {}) }

\* Activation maps are sequences of pixel values in units of 1e-8, the
\* epsilon of line 388; normalized values are in thousandths.
EPSILON == 1
HeatScale == 1000

\* The map of line 387 (weighted activations after relu and interpolate)
\* that the network of a profile yields for an image and a target class:
\* a spread map, a flat one, an all-zero one, one whose range is of the
\* size of epsilon, and one that stays well above zero.
Cam(weights, image, class_idx) ==
  CASE weights = "peaked" ->
         IF image = "imgA" THEN <<0, 250000, 1000000, 2000000>>
         ELSE <<2000000, 0, 2000000, 750000>>
    [] weights = "uniform" -> <<300000, 300000, 300000, 300000>>
    [] weights = "certain" -> <<0, 0, 0, 0>>
    [] weights = "pair" -> <<1, 2, 2, 1>>
    [] OTHER -> <<700000 + class_idx, 900000, 800000, 2000000>>

RECURSIVE SeqMin(_)
SeqMin(s) == IF Len(s) = 1 THEN s[1] ELSE Min(s[1], SeqMin(Tail(s)))
RECURSIVE SeqMax(_)
SeqMax(s) == IF Len(s) = 1 THEN s[1] ELSE -Min(-s[1], -SeqMax(Tail(s)))

\* cam / (cam.max() - cam.min() + 1e-8)
NormalizeNoShift(cam) ==
  [i \in 1..Len(cam) |->
     (cam[i] * HeatScale) \div (SeqMax(cam) - SeqMin(cam) + EPSILON)]

\* line 388: (cam - cam.min()) / (cam.max() - cam.min() + 1e-8)
Normalize(cam) ==
  [i \in 1..Len(cam) |->
     ((cam[i] - SeqMin(cam)) * HeatScale) \div (SeqMax(cam) - SeqMin(cam) + EPSILON)]

\* the data URI _generate_gradcam returns for an image, a target class and
\* a normalized map
Overlay(image, class_idx, heat) == <<"data:image/jpeg;base64", image, class_idx, heat>>

\* activations and gradients are the lists of lines 356..357 that the hook
\* closures of the call append to
NoTrace == [preprocessed |-> FALSE, lock_acquired |-> FALSE, model_calls |-> 0,
            activations |-> <<>>, gradients |-> <<>>]

\* the predictor object the thread's predict call runs on
Self(t) == objs[predictor[t]]

\* reference_image of predict: _preprocess returns the resized image only
\* when return_image = include_gradcam
reference_image(t) == IF include_gradcam[t] THEN batch[t] ELSE None

CallId(t) == <<t, calls[t]>>

\* the state at process start in one of the given environments
InitIn(envs) ==
  /\ \E env \in envs :
       /\ TORCH_AVAILABLE = env.torch
       /\ MATPLOTLIB_AVAILABLE = env.mpl
       /\ files = env.present
       /\ checkpoint = env.ckpt
  /\ PREDICTOR_INSTANCE = NoRef
  /\ PREDICTOR_LOCK = NoRef
  /\ objs = <<>>
  /\ pc = [t \in Threads |-> "idle"]
  /\ calls = [t \in Threads |-> 0]
  /\ image_bytes = [t \in Threads |-> None]
  /\ include_gradcam = [t \in Threads |-> FALSE]
  /\ predictor = [t \in Threads |-> NoRef]
  /\ created = [t \in Threads |-> NoRef]
  /\ batch = [t \in Threads |-> None]
  /\ top = [t \in Threads |-> NoTop]
  /\ gradcam_image = [t \in Threads |-> NoImage]
  /\ exc = [t \in Threads |-> None]
  /\ result = [t \in Threads |-> NoResult]
  /\ trace = [t \in Threads |-> NoTrace]

Init == InitIn(Environments)

RECURSIVE SumCalls(_)
SumCalls(n) == IF n = 0 THEN 0 ELSE calls[n] + SumCalls(n - 1)
\* requests started so far
Started == SumCalls(NumThreads)

\* a request handler starts get_predictor().predict(...)
Request(t) ==
  /\ pc[t] \in {"idle", "raised"}
  /\ Started < MaxCalls
  /\ calls' = [calls EXCEPT ![t] = @ + 1]
  /\ predictor' = [predictor EXCEPT ![t] = NoRef]
  /\ result' = [result EXCEPT ![t] = NoResult]
  /\ pc' = [pc EXCEPT ![t] = "gp_check"]
  /\ UNCHANGED <<envvars, globals, objs, created, image_bytes,
                 include_gradcam, batch, top, gradcam_image, exc, trace>>

\* ------------------------------------------------------------ get_predictor
\* lines 416..417: the lock-free fast path
GetCheck(t) ==
  /\ pc[t] = "gp_check"
  /\ IF PREDICTOR_INSTANCE # NoRef
     THEN /\ predictor' = [predictor EXCEPT ![t] = PREDICTOR_INSTANCE]
          /\ pc' = [pc EXCEPT ![t] = "p_call"]
     ELSE /\ pc' = [pc EXCEPT ![t] = "gp_lock"]
          /\ UNCHANGED predictor
  /\ UNCHANGED <<envvars, globals, objs, calls, image_bytes, include_gradcam,
                 created, batch, top, gradcam_image, exc, result, trace>>

\* line 419: with _PREDICTOR_LOCK
GetLock(t) ==
  /\ pc[t] = "gp_lock"
  /\ PREDICTOR_LOCK = NoRef
  /\ PREDICTOR_LOCK' = t
  /\ pc' = [pc EXCEPT ![t] = "gp_init"]
  /\ UNCHANGED <<envvars, PREDICTOR_INSTANCE, objs, calls, locals>>

\* line 420 without the second check
NeedsInitUnchecked == TRUE

\* line 420 building a new predictor whenever the cached one is unloaded
NeedsInitRetry ==
  PREDICTOR_INSTANCE = NoRef \/ ~objs[PREDICTOR_INSTANCE].is_loaded

\* the second check of get_predictor, line 420
NeedsInit == PREDICTOR_INSTANCE = NoRef

\* a get_predictor that stores the new object in _PREDICTOR_INSTANCE before
\* its constructor has loaded the checkpoint
GetInitPublishes(t) ==
  /\ pc[t] = "gp_init"
  /\ IF NeedsInit
     THEN /\ objs' = Append(objs, NewPredictor)
          /\ created' = [created EXCEPT ![t] = Len(objs) + 1]
          /\ PREDICTOR_INSTANCE' = Len(objs) + 1
          /\ pc' = [pc EXCEPT ![t] = "gp_construct"]
     ELSE /\ pc' = [pc EXCEPT ![t] = "gp_unlock"]
          /\ UNCHANGED <<objs, created, PREDICTOR_INSTANCE>>
  /\ UNCHANGED <<envvars, PREDICTOR_LOCK, calls, image_bytes, include_gradcam,
                 predictor, batch, top, gradcam_image, exc, result, trace>>

\* lines 420..421 and 105..122: the check under the lock; the constructor is
\* entered and gives the new object the values every predictor starts with
GetInit(t) ==
  /\ pc[t] = "gp_init"
  /\ IF NeedsInit
     THEN /\ objs' = Append(objs, NewPredictor)
          /\ created' = [created EXCEPT ![t] = Len(objs) + 1]
          /\ pc' = [pc EXCEPT ![t] = "gp_construct"]
     ELSE /\ pc' = [pc EXCEPT ![t] = "gp_unlock"]
          /\ UNCHANGED <<objs, created>>
  /\ UNCHANGED <<envvars, globals, calls, image_bytes, include_gradcam,
                 predictor, batch, top, gradcam_image, exc, result, trace>>

\* lines 124..137: the rest of the constructor, checkpoint loading included
GetConstruct(t) ==
  /\ pc[t] = "gp_construct"
  /\ objs' = [objs EXCEPT ![created[t]] = Construct]
  /\ pc' = [pc EXCEPT ![t] = "gp_assign"]
  /\ UNCHANGED <<envvars, globals, calls, locals>>

\* line 421: the store into _PREDICTOR_INSTANCE
GetAssign(t) ==
  /\ pc[t] = "gp_assign"
  /\ PREDICTOR_INSTANCE' = created[t]
  /\ created' = [created EXCEPT ![t] = NoRef]
  /\ pc' = [pc EXCEPT ![t] = "gp_unlock"]
  /\ UNCHANGED <<envvars, PREDICTOR_LOCK, objs, calls, image_bytes,
                 include_gradcam, predictor, batch, top, gradcam_image, exc,
                 result, trace>>

\* leaving the with block of line 419
GetUnlock(t) ==
  /\ pc[t] = "gp_unlock"
  /\ PREDICTOR_LOCK' = NoRef
  /\ pc' = [pc EXCEPT ![t] = "gp_return"]
  /\ UNCHANGED <<envvars, PREDICTOR_INSTANCE, objs, calls, locals>>

\* line 422
GetReturn(t) ==
  /\ pc[t] = "gp_return"
  /\ predictor' = [predictor EXCEPT ![t] = PREDICTOR_INSTANCE]
  /\ pc' = [pc EXCEPT ![t] = "p_call"]
  /\ UNCHANGED <<envvars, globals, objs, calls, image_bytes, include_gradcam,
                 created, batch, top, gradcam_image, exc, result, trace>>

\* ------------------------------------------------------------------ predict
\* predict returns value r to its caller: the frame of the call (arguments
\* and locals) is gone, the caller holds r
Return(t, r) ==
  /\ result' = [result EXCEPT ![t] = r]
  /\ pc' = [pc EXCEPT ![t] = "idle"]
  /\ image_bytes' = [image_bytes EXCEPT ![t] = None]
  /\ include_gradcam' = [include_gradcam EXCEPT ![t] = FALSE]
  /\ batch' = [batch EXCEPT ![t] = None]
  /\ top' = [top EXCEPT ![t] = NoTop]
  /\ gradcam_image' = [gradcam_image EXCEPT ![t] = NoImage]
  /\ exc' = [exc EXCEPT ![t] = None]
  /\ trace' = [trace EXCEPT ![t] = NoTrace]

\* line 292: predict is entered with its two arguments
PredictCall(t) ==
  /\ pc[t] = "p_call"
  /\ \E img \in Images, flag \in BOOLEAN :
       /\ image_bytes' = [image_bytes EXCEPT ![t] = img]
       /\ include_gradcam' = [include_gradcam EXCEPT ![t] = flag]
  /\ pc' = [pc EXCEPT ![t] = "p_loaded"]
  /\ UNCHANGED <<envvars, globals, objs, calls, predictor, created, batch,
                 top, gradcam_image, exc, result, trace>>

\* a predict that does not look at the loaded state
NotLoadedIgnored(p) == FALSE

\* line 294: if not self.is_loaded or self.model is None
NotLoaded(p) == ~p.is_loaded \/ p.model = None

\* the checks of lines 294..298 with the predictor's lock taken right after
\* them, before the image is preprocessed
PredictLoadedThenLock(t) ==
  /\ pc[t] = "p_loaded"
  /\ IF NotLoaded(Self(t))
     THEN /\ Return(t, Failure(PyOr(Self(t).load_error, "Model is not loaded")))
          /\ UNCHANGED objs
     ELSE /\ Self(t).lock = NoRef
          /\ objs' = [objs EXCEPT ![predictor[t]].lock = t]
          /\ trace' = [trace EXCEPT ![t].lock_acquired = TRUE]
          /\ pc' = [pc EXCEPT ![t] = "p_preprocess"]
          /\ UNCHANGED <<image_bytes, include_gradcam, batch, top,
                         gradcam_image, exc, result>>
  /\ UNCHANGED <<envvars, globals, calls, predictor, created>>

\* lines 294..298: the loaded-state check
PredictLoaded(t) ==
  /\ pc[t] = "p_loaded"
  /\ IF NotLoaded(Self(t))
     THEN Return(t, Failure(PyOr(Self(t).load_error, "Model is not loaded")))
     ELSE /\ pc' = [pc EXCEPT ![t] = "p_preprocess"]
          /\ UNCHANGED <<image_bytes, include_gradcam, batch, top,
                         gradcam_image, exc, result, trace>>
  /\ UNCHANGED <<envvars, globals, objs, calls, predictor, created>>

\* _preprocess that lets a payload through without decoding it
PreprocessNoDecode(image, raises) == IF raises THEN None ELSE image

\* _preprocess, lines 271..285: None for empty bytes, None when decoding or
\* the transform raises, the batch of the decoded image otherwise
Preprocess(image, raises) ==
  IF image = "empty" THEN None
  ELSE IF image = "corrupt" \/ raises THEN None
  ELSE image

\* lines 300..306
PredictPreprocess(t) ==
  /\ pc[t] = "p_preprocess"
  /\ \E raises \in BOOLEAN :
       LET preprocess_result == Preprocess(image_bytes[t], raises)
       IN IF preprocess_result = None
          THEN Return(t, Failure("Could not read image (unsupported or corrupt file)"))
          ELSE /\ batch' = [batch EXCEPT ![t] = preprocess_result]
               /\ trace' = [trace EXCEPT ![t].preprocessed = TRUE]
               /\ pc' = [pc EXCEPT ![t] = "p_lock"]
               /\ UNCHANGED <<image_bytes, include_gradcam, top, gradcam_image,
                              exc, result>>
  /\ UNCHANGED <<envvars, globals, objs, calls, predictor, created>>

\* an acquire that never waits
LockFreeNoWait(p) == TRUE

\* threading.Lock.acquire: the lock of predictor p can be taken
LockFree(p) == p.lock = NoRef

\* line 310: with self.lock
PredictLock(t) ==
  /\ pc[t] = "p_lock"
  /\ LockFree(Self(t))
  /\ objs' = [objs EXCEPT ![predictor[t]].lock = t]
  /\ trace' = [trace EXCEPT ![t].lock_acquired = TRUE]
  /\ pc' = [pc EXCEPT ![t] = "p_forward"]
  /\ UNCHANGED <<envvars, globals, calls, image_bytes, include_gradcam,
                 predictor, created, batch, top, gradcam_image, exc, result>>

\* a try block of predict that ends before the Grad-CAM call
PredictTryShort == {"p_forward", "p_topk"}

\* positions covered by the try block of predict, lines 311..342, the
\* return of lines 334..342 included, whose handler is the except clause of
\* line 343
PredictTry == {"p_forward", "p_topk", "g_check", "g_reg_fwd", "g_reg_bwd",
               "g_pass", "g_render", "g_finally", "p_return"}

\* positions covered by the try block of _generate_gradcam, lines 368..400,
\* whose handler is the except clause of line 401
GradcamTry == {"g_pass", "g_render"}

\* where control goes when an Exception is raised at position `at`: the
\* innermost enclosing handler, or out of predict to the caller
Handler(at) ==
  IF at \in GradcamTry THEN "g_finally"
  ELSE IF at \in PredictTry THEN "p_except"
  ELSE "raised"

\* an Exception with message msg is raised at the position of thread t;
\* leaving the with block of line 310 by an exception releases the lock
Raise(t, msg) ==
  LET h == Handler(pc[t])
  IN /\ pc' = [pc EXCEPT ![t] = h]
     /\ exc' = [exc EXCEPT ![t] = IF h = "g_finally" THEN @ ELSE msg]
     /\ objs' = IF h = "raised" /\ Self(t).lock = t
                THEN [objs EXCEPT ![predictor[t]].lock = NoRef]
                ELSE objs

\* what a hook stores when a pass of thread u goes through the layer: the
\* tensor of that pass, named by the call, its input and its target class
Captured(u, class_idx) == [by |-> CallId(u), image |-> batch[u], class_idx |-> class_idx]

\* hooks that append to lists shared by all the calls of the predictor
HookOfAnyCall(v, u, kind) ==
  /\ predictor[v] = predictor[u]
  /\ pc[v] \notin {"idle", "raised"}
  /\ \E h \in Self(u).hooks : h[2] = kind

\* The _generate_gradcam call of thread v has a hook of the kind on the
\* layer that a pass of thread u goes through.  The lists live from line
\* 356 to the return of _generate_gradcam; those of a call that has ended
\* belong to nothing that is still read.
HookOf(v, u, kind) ==
  /\ predictor[v] = predictor[u]
  /\ pc[v] \in {"g_reg_bwd", "g_pass", "g_render", "g_finally"}
  /\ <<CallId(v), kind>> \in Self(u).hooks

\* lines 359..363: a pass of thread u fires the forward hooks on the layer;
\* each appends the output to the list of its own call
FireForward(u, tr) ==
  [v \in Threads |->
     IF HookOf(v, u, "fwd")
     THEN [tr[v] EXCEPT !.activations = Append(@, Captured(u, NoCount))]
     ELSE tr[v]]

\* the backward hooks, in the same way, for the gradient of the target
FireBackward(u, tr) ==
  [v \in Threads |->
     IF HookOf(v, u, "bwd")
     THEN [tr[v] EXCEPT !.gradients = Append(@, Captured(u, top[u].class_idx))]
     ELSE tr[v]]

\* lines 312..315: tensor transfer, forward pass and softmax; batch.to may
\* raise before the model is called, the model call may raise
PredictForward(t) ==
  /\ pc[t] = "p_forward"
  /\ \/ /\ \E msg \in ExcMsgs : Raise(t, msg)
        /\ UNCHANGED trace
     \/ /\ \E msg \in ExcMsgs : Raise(t, msg)
        /\ trace' = [trace EXCEPT ![t].model_calls = @ + 1]
     \/ /\ trace' = FireForward(t, [trace EXCEPT ![t].model_calls = @ + 1])
        /\ pc' = [pc EXCEPT ![t] = "p_topk"]
        /\ UNCHANGED <<exc, objs>>
  /\ UNCHANGED <<envvars, globals, calls, image_bytes, include_gradcam,
                 predictor, created, batch, top, gradcam_image, result>>

\* lines 317..333: top-k ranking and the decision to run Grad-CAM
PredictTopK(t) ==
  /\ pc[t] = "p_topk"
  /\ \/ /\ \E msg \in ExcMsgs : Raise(t, msg)
        /\ UNCHANGED top
     \/ /\ \E ranked \in Rank(Self(t),
                              Forward(Self(t).model, batch[t], Self(t).num_classes)) :
             top' = [top EXCEPT ![t] = ranked]
        /\ pc' = [pc EXCEPT ![t] =
                     IF include_gradcam[t] /\ reference_image(t) # None
                     THEN "g_check" ELSE "p_return"]
        /\ UNCHANGED <<exc, objs>>
  /\ UNCHANGED <<envvars, globals, calls, image_bytes, include_gradcam,
                 predictor, created, batch, gradcam_image, result, trace>>

\* --------------------------------------------------------- _generate_gradcam
\* hooks the running call of thread t has registered
OwnHooks(t) == {<<CallId(t), "fwd">>, <<CallId(t), "bwd">>}

\* a generator that goes on to register its hooks without the checks
GradcamCheckSkipped(t) ==
  /\ pc[t] = "g_check"
  /\ pc' = [pc EXCEPT ![t] = "g_reg_fwd"]
  /\ UNCHANGED <<envvars, globals, objs, calls, locals>>

\* lines 351..357: the availability checks; both return None
GradcamCheck(t) ==
  /\ pc[t] = "g_check"
  /\ pc' = [pc EXCEPT ![t] =
       IF ~(TORCH_AVAILABLE /\ MATPLOTLIB_AVAILABLE) THEN "p_return"
       ELSE IF Self(t).model = None \/ Self(t).gradcam_layer = None THEN "p_return"
       ELSE "g_reg_fwd"]
  /\ UNCHANGED <<envvars, globals, objs, calls, locals>>

\* line 365: handle_fwd = register_forward_hook(...)
GradcamRegisterForward(t) ==
  /\ pc[t] = "g_reg_fwd"
  /\ \/ \E msg \in ExcMsgs : Raise(t, msg)
     \/ /\ objs' = [objs EXCEPT ![predictor[t]].hooks = @ \cup {<<CallId(t), "fwd">>}]
        /\ pc' = [pc EXCEPT ![t] = "g_reg_bwd"]
        /\ UNCHANGED exc
  /\ UNCHANGED <<envvars, globals, calls, image_bytes, include_gradcam,
                 predictor, created, batch, top, gradcam_image, result, trace>>

\* line 366: handle_bwd = register_full_backward_hook(...)
GradcamRegisterBackward(t) ==
  /\ pc[t] = "g_reg_bwd"
  /\ \/ \E msg \in ExcMsgs : Raise(t, msg)
     \/ /\ objs' = [objs EXCEPT ![predictor[t]].hooks = @ \cup {<<CallId(t), "bwd">>}]
        /\ pc' = [pc EXCEPT ![t] = "g_pass"]
        /\ UNCHANGED exc
  /\ UNCHANGED <<envvars, globals, calls, image_bytes, include_gradcam,
                 predictor, created, batch, top, gradcam_image, result, trace>>

\* lines 369..373: the traced forward pass and the backward pass.  An
\* exception may come before the model is called (batch.clone, zero_grad),
\* in the model call before the layer is reached, after the forward hooks
\* have fired (the rest of the model call, line 372, the backward pass
\* before the layer) or after the backward hooks have fired; the lists
\* hold what the hooks stored up to then.  In a pass that ends the
\* backward hooks may not have been called.
GradcamPass(t) ==
  /\ pc[t] = "g_pass"
  /\ LET called == [trace EXCEPT ![t].model_calls = @ + 1]
         forward == FireForward(t, called)
         backward == FireBackward(t, forward)
     IN \/ /\ \E msg \in ExcMsgs : Raise(t, msg)
           /\ trace' \in {trace, called, forward, backward}
        \/ /\ trace' \in {forward, backward}
           /\ pc' = [pc EXCEPT ![t] = "g_render"]
           /\ UNCHANGED <<exc, objs>>
  /\ UNCHANGED <<envvars, globals, calls, image_bytes, include_gradcam,
                 predictor, created, batch, top, gradcam_image, result>>

\* lines 375..400: None when nothing was captured, the overlay otherwise;
\* any step may raise
GradcamRender(t) ==
  /\ pc[t] = "g_render"
  /\ \/ /\ \E msg \in ExcMsgs : Raise(t, msg)
        /\ UNCHANGED gradcam_image
     \/ /\ LET activations == trace[t].activations
                gradients == trace[t].gradients
            IN gradcam_image' = [gradcam_image EXCEPT ![t] =
                 IF activations = <<>> \/ gradients = <<>> THEN NoImage
                 ELSE Overlay(reference_image(t), top[t].class_idx,
                              Normalize(Cam(Self(t).model,
                                            activations[Len(activations)].image,
                                            gradients[Len(gradients)].class_idx)))]
        /\ pc' = [pc EXCEPT ![t] = "g_finally"]
        /\ UNCHANGED <<exc, objs>>
  /\ UNCHANGED <<envvars, globals, calls, image_bytes, include_gradcam,
                 predictor, created, batch, top, result, trace>>

\* lines 404..406: handle_fwd.remove(); handle_bwd.remove()
GradcamFinally(t) ==
  /\ pc[t] = "g_finally"
  /\ objs' = [objs EXCEPT ![predictor[t]].hooks = @ \ OwnHooks(t)]
  /\ pc' = [pc EXCEPT ![t] = "p_return"]
  /\ UNCHANGED <<envvars, globals, calls, locals>>

\* a with block that is left without releasing self.lock
PredictReturnKeepsLock(t) ==
  /\ pc[t] = "p_return"
  /\ Return(t, [ success         |-> TRUE,
                 disease         |-> top[t].top_predictions[1].disease,
                 confidence      |-> top[t].top_predictions[1].confidence,
                 method          |-> Self(t).method_id,
                 model_name      |-> Self(t).method_name,
                 top_predictions |-> top[t].top_predictions,
                 gradcam_image   |-> gradcam_image[t] ])
  /\ UNCHANGED <<envvars, globals, objs, calls, predictor, created>>

\* lines 334..342 and the release of self.lock; building the result is
\* still inside the try block, so an exception raised there is caught
PredictReturn(t) ==
  /\ pc[t] = "p_return"
  /\ \/ /\ \E msg \in ExcMsgs : Raise(t, msg)
        /\ UNCHANGED <<image_bytes, include_gradcam, batch, top,
                       gradcam_image, result, trace>>
     \/ /\ Return(t, [ success         |-> TRUE,
                       disease         |-> top[t].top_predictions[1].disease,
                       confidence      |-> top[t].top_predictions[1].confidence,
                       method          |-> Self(t).method_id,
                       model_name      |-> Self(t).method_name,
                       top_predictions |-> top[t].top_predictions,
                       gradcam_image   |-> gradcam_image[t] ])
        /\ objs' = [objs EXCEPT ![predictor[t]].lock = NoRef]
  /\ UNCHANGED <<envvars, globals, calls, predictor, created>>

\* "error" of the failure built at line 345
ErrorText(msg) == msg

\* lines 343..345 and the release of self.lock
PredictExcept(t) ==
  /\ pc[t] = "p_except"
  /\ Return(t, Failure(ErrorText(exc[t])))
  /\ objs' = [objs EXCEPT ![predictor[t]].lock = NoRef]
  /\ UNCHANGED <<envvars, globals, calls, predictor, created>>

\* one step of thread t
Step(t) ==
  \/ Request(t)
  \/ GetCheck(t)
  \/ GetLock(t)
  \/ GetInit(t)
  \/ GetConstruct(t)
  \/ GetAssign(t)
  \/ GetUnlock(t)
  \/ GetReturn(t)
  \/ PredictCall(t)
  \/ PredictLoaded(t)
  \/ PredictPreprocess(t)
  \/ PredictLock(t)
  \/ PredictForward(t)
  \/ PredictTopK(t)
  \/ GradcamCheck(t)
  \/ GradcamRegisterForward(t)
  \/ GradcamRegisterBackward(t)
  \/ GradcamPass(t)
  \/ GradcamRender(t)
  \/ GradcamFinally(t)
  \/ PredictReturn(t)
  \/ PredictExcept(t)

Next == \E t \in Threads : Step(t)

Spec == Init /\ [][Next]_vars

\* --------------------------------------------- one client, many networks
\* class counts of the networks ranked: below, at and above the five
\* entries predict reports
RankCounts == {1, 3, 5, 6}

RankEnvironments ==
  { [torch |-> TRUE, mpl |-> TRUE, present |-> {1},
     ckpt |-> Checkpoint(None, StateDict(n, FALSE), weights, TRUE)] :
      n \in RankCounts, weights \in Profiles }

RankInit == InitIn(RankEnvironments)

\* test_model.py: a single thread calls get_predictor().predict(...)
RankNext == Step(1)

RankSpec == RankInit /\ [][RankNext]_vars

\* ------------------------------------------- a server that never stops
\* The request handlers of app.py keep calling predict for as long as the
\* process lives.  Two processes with a loaded predictor, one of them
\* without the plotting library, one without PyTorch and one without a
\* model file, each with two request threads; the
\* number of calls is not limited here, so that requests can go on for ever.
LiveEnvironments ==
  { [torch |-> TRUE, mpl |-> TRUE,  present |-> {1, 2}, ckpt |-> CkptOk],
    [torch |-> TRUE, mpl |-> FALSE, present |-> {2},    ckpt |-> CkptOk],
    [torch |-> FALSE, mpl |-> TRUE, present |-> {1},    ckpt |-> CkptOk],
    [torch |-> TRUE, mpl |-> TRUE,  present |-> {},     ckpt |-> CkptOk] }

LiveInit == InitIn(LiveEnvironments)

LiveThreads == {1, 2}

\* the numbers a new call of thread t can take: a hook that an earlier call
\* left on the layer keeps the name of that call, which no later call takes
FreeNumbers(t) ==
  { k \in 1..MaxCalls :
      \A o \in 1..Len(objs) : \A h \in objs[o].hooks : h[1] # <<t, k>> }

\* app.py line 284: one more request of thread t, a call of its own
Again(t) ==
  /\ pc[t] \in {"idle", "raised"}
  /\ FreeNumbers(t) # {}
  /\ calls' = [calls EXCEPT ![t] =
                 CHOOSE k \in FreeNumbers(t) : \A l \in FreeNumbers(t) : k <= l]
  /\ predictor' = [predictor EXCEPT ![t] = NoRef]
  /\ result' = [result EXCEPT ![t] = NoResult]
  /\ pc' = [pc EXCEPT ![t] = "gp_check"]
  /\ UNCHANGED <<envvars, globals, objs, created, image_bytes,
                 include_gradcam, batch, top, gradcam_image, exc, trace>>

\* the steps of predict that wait for nothing: each of them is taken once
\* it stays possible (passes terminate)
Runs(t) ==
  \/ PredictCall(t)
  \/ PredictLoaded(t)
  \/ PredictPreprocess(t)
  \/ PredictForward(t)
  \/ PredictTopK(t)
  \/ GradcamCheck(t)
  \/ GradcamRegisterForward(t)
  \/ GradcamRegisterBackward(t)
  \/ GradcamPass(t)
  \/ GradcamRender(t)
  \/ GradcamFinally(t)
  \/ PredictReturn(t)
  \/ PredictExcept(t)

LiveNext ==
  \E t \in LiveThreads :
     \/ Again(t)
     \/ GetCheck(t)
     \/ GetLock(t)
     \/ GetInit(t)
     \/ GetConstruct(t)
     \/ GetAssign(t)
     \/ GetUnlock(t)
     \/ GetReturn(t)
     \/ PredictLock(t)
     \/ Runs(t)

\* A thread inside predict keeps running, and a thread that waits for
\* self.lock gets it if the lock is free again and again (a lock granted
\* fairly).  Nothing is assumed about get_predictor or about new requests.
LiveSpec ==
  /\ LiveInit /\ [][LiveNext]_vars
  /\ \A t \in Threads : WF_vars(Runs(t)) /\ SF_vars(PredictLock(t))

\* threading.Lock hands the lock to some waiting thread, with no promise
\* about which: a thread inside predict keeps running, and a thread that
\* waits for self.lock gets it only if the lock stays free.
WaitSpec ==
  /\ LiveInit /\ [][LiveNext]_vars
  /\ \A t \in Threads : WF_vars(Runs(t)) /\ WF_vars(PredictLock(t))

\* ----------------------------------------------------- _preprocess alone
\* Byte strings handed to _preprocess: b"", bytes Pillow cannot open, and
\* encoded images of a size (width, height), a mode and an EXIF orientation
EmptyBytes == [kind |-> "empty"]
Garbage == [kind |-> "garbage"]
ImageFile(width, height, mode, orientation) ==
  [kind |-> "image", size |-> <<width, height>>, mode |-> mode,
   orientation |-> orientation]

Sides == {1, IMAGE_SIZE, 1024}
Modes == {"RGB", "RGBA", "L", "P", "CMYK"}
\* EXIF orientations: upright, and rotated by a quarter turn
Orientations == {1, 6}

Payloads ==
  {EmptyBytes, Garbage}
  \cup { ImageFile(w, h, m, o) : w \in Sides, h \in Sides, m \in Modes,
                                 o \in Orientations }

\* None where the tuple _preprocess returns may stand
NoTuple == <<>>
\* a step of the pipeline that raised
Raised == [raised |-> TRUE]

\* ImageOps.exif_transpose
exif_transpose(image) ==
  IF image.orientation \in 5..8
  THEN [image EXCEPT !.size = <<image.size[2], image.size[1]>>, !.orientation = 1]
  ELSE image

\* a conversion that leaves the bands of the image as they are
ConvertKeepsMode(image, mode) == image

\* Image.convert
Convert(image, mode) == [image EXCEPT !.mode = mode]

\* Image.resize and transforms.Resize to a (width, height) pair
Resize(image, size) == [image EXCEPT !.size = size]

\* number of bands of a Pillow mode
Bands(mode) ==
  CASE mode = "RGB" -> 3
    [] mode \in {"RGBA", "CMYK"} -> 4
    [] OTHER -> 1

\* self.transform of _build_transform: Resize, ToTensor (channels, height,
\* width), Normalize with three-channel mean and std
Transform(image) ==
  LET resized == Resize(image, <<IMAGE_SIZE, IMAGE_SIZE>>)
  IN IF Bands(resized.mode) # 3 THEN Raised
     ELSE [shape |-> <<Bands(resized.mode), resized.size[2], resized.size[1]>>]

\* _preprocess on a predictor whose transform is the one _build_transform
\* made when torch is available, None otherwise
preprocess(payload, return_image) ==
  IF payload.kind = "empty" THEN NoTuple
  ELSE IF payload.kind # "image" THEN NoTuple
  ELSE IF ~TORCH_AVAILABLE THEN NoTuple
  ELSE LET image == Convert(exif_transpose(payload), "RGB")
           processed == Resize(image, <<IMAGE_SIZE, IMAGE_SIZE>>)
           tensor == Transform(processed)
       IN IF tensor = Raised THEN NoTuple
          ELSE << [shape |-> <<1>> \o tensor.shape],
                  IF return_image THEN processed ELSE [mode |-> None] >>

\* predict reaches _preprocess on a loaded predictor only, which has torch
PreEnvironments ==
  { [torch |-> TRUE, mpl |-> mpl, present |-> {1}, ckpt |-> CkptOk] :
      mpl \in BOOLEAN }

PreInit == InitIn(PreEnvironments)

\* line 300: the call of _preprocess with the arguments of predict
PreCall ==
  /\ pc[1] = "idle"
  /\ \E payload \in Payloads, flag \in BOOLEAN :
       /\ image_bytes' = [image_bytes EXCEPT ![1] = payload]
       /\ include_gradcam' = [include_gradcam EXCEPT ![1] = flag]
  /\ pc' = [pc EXCEPT ![1] = "pre_run"]
  /\ UNCHANGED <<envvars, globals, objs, calls, predictor, created, batch,
                 top, gradcam_image, exc, result, trace>>

\* lines 271..285
PreRun ==
  /\ pc[1] = "pre_run"
  /\ batch' = [batch EXCEPT ![1] = preprocess(image_bytes[1], include_gradcam[1])]
  /\ pc' = [pc EXCEPT ![1] = "pre_done"]
  /\ UNCHANGED <<envvars, globals, objs, calls, predictor, created,
                 image_bytes, include_gradcam, top, gradcam_image, exc,
                 result, trace>>

PreNext == PreCall \/ PreRun

PreSpec == PreInit /\ [][PreNext]_vars

\* ------------------------------------------- construction at module import
\* label metadata a training script may have saved next to the parameters
Metas ==
  { <<>>,
    << <<(<<"class_to_idx">>),
         Dict("str", "int", << <<"melanoma", 1>>, <<"acne", 0>>, <<"eczema", 2>> >>)>> >>,
    << <<(<<"classes">>), List(<<"eczema", "acne">>)>> >>,
    << <<(<<"idx_to_class">>),
         Dict("int", "str", << <<0, "melanoma">>, <<1, "acne">>, <<2, "eczema">> >>)>> >>,
    << <<(<<"idx_to_class">>), List(<<"acne">>)>>,
       <<(<<"class_names">>), Other>> >>,
    << <<(<<"classes">>), List(<<"melanoma", "eczema", "acne">>)>>,
       <<(<<"class_to_idx">>),
         Dict("str", "mixed", << <<"acne", 0>>, <<"eczema", "1">> >>)>> >>,
    << <<(<<"classes">>), List(<<>>)>> >>,
    << <<(<<"class_names">>), List(<<"acne", "melanoma">>)>>,
       <<(<<"class_to_idx">>),
         Dict("str", "int", << <<"eczema", 0>>, <<"acne", 1>> >>)>> >>,
    << <<(<<"class_to_idx">>), Dict("str", "int", <<>>)>> >>,
    << <<(<<"class_to_idx">>),
         Dict("str", "int", << <<"melanoma", 1>>, <<"acne", 1>>, <<"eczema", 0>> >>)>> >>,
    << <<(<<"class_to_idx">>), Dict("str", "other", << <<"acne", Other>> >>)>>,
       <<(<<"classes">>), List(<<"eczema">>)>> >> }

\* ways the parameters may be stored in the unpickled dict, for a network
\* of n classes
Stores(n) ==
  { << <<(<<"state_dict">>), StateDict(n, FALSE)>> >>,
    << <<(<<"model_state_dict">>), StateDict(n, TRUE)>> >>,
    << <<(<<"model">>), Other>>, <<(<<"net">>), StateDict(n, FALSE)>> >>,
    << <<(<<"net">>), StateDict(n + 1, FALSE)>>,
       <<(<<"model">>), StateDict(n, TRUE)>> >>,
    << <<(<<"optimizer">>), Dict("str", "mixed", <<>>)>>,
       <<(<<"state_dict">>), StateDict(n, FALSE)>>,
       <<(<<"model_state_dict">>), StateDict(n + 1, FALSE)>> >>,
    StateDict(n, FALSE).entries,
    StateDict(n, TRUE).entries,
    << <<(<<"module", "module", "classifier", "1", "weight">>), Tensor(n)>>,
       <<(<<"module", "features", "module", "0", "weight">>), Tensor(48)>>,
       <<(<<"features", "module", "1", "weight">>), Tensor(24)>>,
       <<(<<"module">>), Tensor(1)>> >>,
    << <<(<<"module", "features", "0", "0", "weight">>), Tensor(48)>>,
       <<CLASSIFIER_WEIGHT, Tensor(n)>>,
       <<(<<"features", "0", "0", "weight">>), Tensor(24)>> >>,
    << <<(<<"features", "0", "0", "weight">>), Tensor(48)>> >>,
    << <<CLASSIFIER_WEIGHT, Other>>, <<CLASSIFIER_BIAS, Tensor(n)>> >>,
    << <<(<<"state_dict">>), Other>>, <<(<<"epoch">>), Other>> >> }

\* class counts of the checkpoints considered
ClassCounts == {2, 5}

LoadCheckpoints ==
  Checkpoints
  \cup { Checkpoint(None, Dict("str", "mixed", meta \o store), "peaked", TRUE) :
           meta \in Metas, store \in UNION { Stores(n) : n \in ClassCounts } }
  \cup { Checkpoint(None, List(<<"acne">>), "peaked", TRUE) }

LoadEnvironments ==
  { [torch |-> torch, mpl |-> TRUE, present |-> present, ckpt |-> CkptOk] :
      torch \in BOOLEAN, present \in SUBSET (1..Len(MODEL_FILENAMES)) }
  \cup
  { [torch |-> TRUE, mpl |-> TRUE, present |-> {1}, ckpt |-> c] :
      c \in LoadCheckpoints }

LoadInit == InitIn(LoadEnvironments)

\* app.py line 43: the importing thread calls get_predictor()
LoadNext ==
  \/ Request(1)
  \/ GetCheck(1)
  \/ GetLock(1)
  \/ GetInit(1)
  \/ GetConstruct(1)
  \/ GetAssign(1)
  \/ GetUnlock(1)
  \/ GetReturn(1)

LoadSpec == LoadInit /\ [][LoadNext]_vars

\* ================================================================ properties
\* the last predict call of thread t has returned
Finished(t) == pc[t] = "idle" /\ calls[t] > 0

\* the step returns from the predict call of thread t
Returns(t) == pc[t] # "idle" /\ pc'[t] = "idle"

\* thread t holds a predictor that passes the check of line 294
Loaded(t) == predictor[t] # NoRef /\ Self(t).is_loaded /\ Self(t).model # None
Unloaded(t) == predictor[t] # NoRef /\ (~Self(t).is_loaded \/ Self(t).model = None)

\* positions inside get_predictor
InGetPredictor == {"gp_check", "gp_lock", "gp_init", "gp_construct", "gp_assign",
                   "gp_unlock", "gp_return"}

\* the predictors whose constructor has returned
Built ==
  { o \in 1..Len(objs) :
      \A t \in Threads : ~(pc[t] = "gp_construct" /\ created[t] = o) }

\* positions from the model call of line 314 to the end of the with block
LockedSection == {"p_forward", "p_topk", "g_check", "g_reg_fwd", "g_reg_bwd",
                  "g_pass", "g_render", "g_finally", "p_return", "p_except"}

SuccessKeys == {"success", "disease", "confidence", "method", "model_name",
                "top_predictions", "gradcam_image"}
FailureKeys == {"success", "error"}

CouldNotRead == "Could not read image (unsupported or corrupt file)"

\* C1: at most one thread at a time is between the model call and the end of
\* the Grad-CAM computation of one predictor, and a thread there holds that
\* predictor's lock.
C1_MutualExclusion ==
  /\ \A t \in Threads : pc[t] \in LockedSection => Self(t).lock = t
  /\ \A t1, t2 \in Threads :
       (t1 # t2 /\ pc[t1] \in LockedSection /\ pc[t2] \in LockedSection)
         => predictor[t1] # predictor[t2]

\* one call is inside its traced Grad-CAM pass while another call on the
\* same predictor waits for the lock
C1_Witness ==
  \E t1, t2 \in Threads :
    /\ t1 # t2
    /\ pc[t1] = "g_pass"
    /\ pc[t2] = "p_lock"
    /\ predictor[t1] = predictor[t2]

\* C2: the hooks attached to a Grad-CAM layer at any time all belong to one
\* predict call.
C2_HooksOfOneCall ==
  \A i \in 1..Len(objs) :
    \A h1, h2 \in objs[i].hooks : h1[1] = h2[1]

\* C3: the constructor runs at most once, exactly once as soon as a
\* get_predictor call has returned, and every get_predictor call returns the
\* one instance.
C3_SingleInstance ==
  /\ Len(objs) <= 1
  /\ \A t \in Threads :
       (pc[t] \notin InGetPredictor \cup {"idle", "raised"} \/ Finished(t))
         => /\ predictor[t] # NoRef
            /\ predictor[t] = PREDICTOR_INSTANCE
            /\ Len(objs) = 1

\* a thread that saw no instance on the fast path is inside the
\* initialization lock after another thread has stored the instance
C3_Witness ==
  \E t \in Threads : pc[t] = "gp_init" /\ PREDICTOR_INSTANCE # NoRef

\* C4: once an unloaded predictor has been stored, it stays the instance, no
\* other predictor is built, its load error does not change, and every
\* predict call returns the one failure derived from that load error.
C4_FailureCached ==
  /\ [](\A i \in 1..Len(objs) :
          (PREDICTOR_INSTANCE = i /\ ~objs[i].is_loaded)
            => /\ Len(objs) = 1
               /\ \A t \in Threads :
                    Finished(t) =>
                      /\ predictor[t] = i
                      /\ result[t] =
                           Failure(IF objs[i].load_error \in {"", None}
                                   THEN "Model is not loaded"
                                   ELSE objs[i].load_error)
               /\ \A t1, t2 \in Threads :
                    (Finished(t1) /\ Finished(t2)) => result[t1] = result[t2])
  /\ [][(PREDICTOR_INSTANCE # NoRef /\ ~objs[PREDICTOR_INSTANCE].is_loaded)
          => /\ PREDICTOR_INSTANCE' = PREDICTOR_INSTANCE
             /\ objs' = objs]_vars

\* two predict calls have returned from the cached unloaded predictor
C4_Witness ==
  \E t1, t2 \in Threads :
    /\ t1 # t2
    /\ Finished(t1) /\ Finished(t2)
    /\ Unloaded(t1) /\ Unloaded(t2)
    /\ PREDICTOR_LOCK = NoRef

\* C5: a predict call on an unloaded predictor, whatever its arguments, has
\* not preprocessed the image, acquired the inference lock or called the
\* model, and returns a failure with a non-empty error message.
C5_UnloadedShortCircuit ==
  \A t \in Threads :
    Unloaded(t) =>
      /\ trace[t] = NoTrace
      /\ pc[t] \in {"p_call", "p_loaded", "idle"}
      /\ Finished(t) => /\ DOMAIN result[t] = FailureKeys
                        /\ result[t].success = FALSE
                        /\ result[t].error \notin {"", None}

\* a call has returned from a predictor whose load error is the empty string
C5_Witness ==
  \E t \in Threads :
    /\ Finished(t) /\ Unloaded(t)
    /\ Self(t).load_error = ""
    /\ result[t] = Failure("Model is not loaded")

\* C6: on a loaded predictor a call with zero-length or undecodable bytes
\* never gets past preprocessing, so it neither acquires the inference lock
\* nor calls the model, and it returns the "Could not read image" failure.
C6_UnreadableImage ==
  /\ [](\A t \in Threads :
          (Loaded(t) /\ image_bytes[t] \in {"empty", "corrupt"}) =>
             /\ pc[t] \in {"p_loaded", "p_preprocess"}
             /\ ~trace[t].lock_acquired
             /\ trace[t].model_calls = 0)
  /\ [][\A t \in Threads :
          (Loaded(t) /\ image_bytes[t] \in {"empty", "corrupt"} /\ Returns(t))
             => result'[t] = Failure(CouldNotRead)]_vars

\* a call has returned the "Could not read image" failure from a loaded
\* predictor whose lock was never taken
C6_Witness ==
  \E t \in Threads :
    /\ Finished(t) /\ Loaded(t)
    /\ result[t] = Failure(CouldNotRead)
    /\ Started = 1

\* no predict call has ended by an exception, and a call that has ended has
\* returned a success result or a failure with an error string
ReturnsResult ==
  \A t \in Threads :
    /\ pc[t] # "raised"
    /\ Finished(t) =>
         \/ /\ DOMAIN result[t] = SuccessKeys
            /\ result[t].success = TRUE
         \/ /\ DOMAIN result[t] = FailureKeys
            /\ result[t].success = FALSE
            /\ result[t].error \in ExcMsgs \cup
                 {CouldNotRead, "Model is not loaded", Self(t).load_error}

\* every predict call that has begun ends
EveryCallEnds ==
  \A t \in Threads : (pc[t] \in {"p_call", "p_loaded", "p_preprocess", "p_lock"}
                                  \cup LockedSection) ~> (pc[t] = "idle")

\* C7 as stated: no predict call ends by an exception, whatever step fails,
\* and every predict call terminates by returning a success result or a
\* failure with an error string.
C7_AlwaysTerminates == []ReturnsResult /\ EveryCallEnds

\* C7: no predict call ends by an exception, whatever step fails; a call
\* that has ended has returned a success result or a failure with an error
\* string; and where the lock is granted fairly (a call that finds the
\* lock free again and again gets it), every predict call terminates.
C7_NoException ==
  /\ []ReturnsResult
  /\ (\A t \in Threads : SF_vars(PredictLock(t))) => EveryCallEnds

\* a call in which a step of the locked section raised has returned the
\* failure built from that exception, leaving a hook behind: the raising
\* step was the registration of the backward hook; another call waits for
\* the lock of the same predictor
C7_Witness ==
  \E t, u \in Threads :
    /\ Finished(t) /\ Loaded(t)
    /\ result[t].success = FALSE
    /\ result[t].error \in ExcMsgs
    /\ <<CallId(t), "fwd">> \in Self(t).hooks
    /\ pc[u] = "p_lock" /\ predictor[u] = predictor[t]

\* C8: a call whose forward pass and ranking succeeded returns success with
\* the computed label, confidence and top-k list, whatever happens in the
\* saliency generator.
C8_SaliencyNeverFails ==
  [][\A t \in Threads :
       (Returns(t) /\ top[t] # NoTop) =>
          /\ result'[t].success = TRUE
          /\ result'[t].top_predictions = top[t].top_predictions
          /\ result'[t].disease = top[t].top_predictions[1].disease
          /\ result'[t].confidence = top[t].top_predictions[1].confidence]_vars

\* C9: once the saliency generator of a call has ended none of the hooks of
\* that call is on the layer, and a layer whose predictor's lock is free
\* carries no hook.
C9_HooksRemoved ==
  /\ \A t \in Threads :
       (predictor[t] # NoRef /\ pc[t] \in {"p_return", "p_except", "idle", "raised"})
         => Self(t).hooks \cap OwnHooks(t) = {}
  /\ \A i \in 1..Len(objs) : objs[i].lock = NoRef => objs[i].hooks = {}

\* C10: every failure a predict call returns carries a non-empty error
\* message.
C10_ErrorNonEmpty ==
  \A t \in Threads :
    (Finished(t) /\ result[t].success = FALSE) => result[t].error \notin {"", None}

\* C11: the predictor's lock is taken only after preprocessing has succeeded:
\* a thread that has not finished preprocessing its image holds no lock, a
\* thread that has taken the lock has a preprocessed batch of a decodable
\* image, and the holder of a lock is past preprocessing.
C11_LockAfterPreprocess ==
  /\ \A t \in Threads :
       /\ pc[t] \in {"p_call", "p_loaded", "p_preprocess", "p_lock"} =>
            /\ ~trace[t].lock_acquired
            /\ \A i \in 1..Len(objs) : objs[i].lock # t
       /\ trace[t].lock_acquired =>
            trace[t].preprocessed /\ batch[t] \in ValidImages
  /\ \A i \in 1..Len(objs) :
       objs[i].lock # NoRef => trace[objs[i].lock].preprocessed

\* one call is about to preprocess its image while another call on the
\* same predictor holds the lock
C11_Witness ==
  \E t, u \in Threads :
     /\ t # u
     /\ pc[t] = "p_preprocess" /\ image_bytes[t] \in ValidImages
     /\ pc[u] \in LockedSection
     /\ predictor[u] = predictor[t] /\ Self(u).lock = u

\* the softmax output the running call of thread t ranks
Scores(t) == Forward(Self(t).model, batch[t], Self(t).num_classes)

\* entry e reports class index i of the running call of thread t: its label,
\* and its score as a percentage to the nearest hundredth
Reports(t, e, i) ==
  /\ e.disease = Self(t).class_names[i + 1]
  /\ Scores(t)[i + 1] - 100 * e.confidence \in -50..50

\* C12: a successful predict returns min(5, number of classes) ranked
\* entries, in non-increasing order of confidence, each carrying the label
\* of a class and that class's probability as a percentage rounded to two
\* decimals, between 0 and 100.
C12_TopPredictions ==
  [][\A t \in Threads :
       Returns(t) /\ result'[t].success =>
         LET entries == result'[t].top_predictions
         IN /\ Len(entries) = Min(5, Self(t).num_classes)
            /\ \A r \in 1..Len(entries) :
                 /\ entries[r].confidence \in 0..10000
                 /\ r > 1 => entries[r - 1].confidence >= entries[r].confidence
                 /\ \E i \in 0..(Self(t).num_classes - 1) :
                      Reports(t, entries[r], i)]_vars

\* a network of more than five classes has returned five entries that are
\* not all level
C12_Witness ==
  \E t \in Threads :
     /\ Finished(t) /\ result[t].success
     /\ Self(t).num_classes > 5
     /\ Len(result[t].top_predictions) = 5
     /\ result[t].top_predictions[1].confidence
          > result[t].top_predictions[5].confidence

\* the class count _infer_num_classes reads from the parameters of the
\* checkpoint on disk, NoCount when there is none to read
InferredCount ==
  IF extract_state_dict(checkpoint.obj) = NoDict THEN NoCount
  ELSE infer_num_classes(extract_state_dict(checkpoint.obj))

\* the constructor got as far as reconciling the labels of the checkpoint
Parsed ==
  /\ TORCH_AVAILABLE /\ files # {} /\ checkpoint.raises = None
  /\ extract_state_dict(checkpoint.obj) # NoDict

\* load_state_dict (line 184) takes the mapping of the checkpoint
Accepted ==
  /\ Parsed
  /\ LET state_dict == extract_state_dict(checkpoint.obj)
     IN ~LoadStateDictRaises(state_dict,
           NumClasses(NamesBefore(NewPredictor, checkpoint.obj), state_dict))

\* C13: a checkpoint whose inferred class count differs from the length of
\* the label list loads all the same (when the network takes its
\* tensors), and afterwards the list has exactly
\* the inferred number of entries: the labels it had, in order, cut to the
\* class count or followed by class_<i> at every missing index i.
C13_ClassCountReconciled ==
  \A o \in Built :
     LET names == NamesBefore(NewPredictor, checkpoint.obj)
     IN (Parsed /\ InferredCount # NoCount /\ InferredCount # Len(names)) =>
          /\ Accepted => (objs[o].is_loaded /\ objs[o].load_error = None)
          /\ Len(objs[o].class_names) = InferredCount
          /\ \A i \in 0..(InferredCount - 1) :
               objs[o].class_names[i + 1] =
                 IF i < Len(names) THEN names[i + 1] ELSE ClassLabel(i)

\* a predictor was built from a checkpoint that names fewer classes than
\* its classifier has, and the last label is a generic one
C13_Witness ==
  \E o \in 1..Len(objs) :
     /\ Parsed /\ objs[o].is_loaded
     /\ extract_class_names(checkpoint.obj) # NoList
     /\ Len(extract_class_names(checkpoint.obj)) < InferredCount
     /\ objs[o].class_names[InferredCount] = ClassLabel(InferredCount - 1)

\* C14: a successful predict returns exactly the keys success, disease,
\* confidence, method, model_name, top_predictions and gradcam_image; disease
\* and confidence are those of the first entry of top_predictions, which is
\* a class of highest probability, no entry has a higher confidence, and
\* the identifiers are "ml_model" and "efficientnet_b4".
C14_BestPrediction ==
  [][\A t \in Threads :
       Returns(t) /\ result'[t].success =>
         LET r == result'[t]
         IN /\ DOMAIN r = SuccessKeys
            /\ r.method = "ml_model" /\ r.model_name = "efficientnet_b4"
            /\ r.disease = r.top_predictions[1].disease
            /\ r.confidence = r.top_predictions[1].confidence
            /\ \A e \in 1..Len(r.top_predictions) :
                 r.top_predictions[e].confidence <= r.confidence
            /\ \E i \in 0..(Self(t).num_classes - 1) :
                 /\ \A j \in 1..Self(t).num_classes :
                      Scores(t)[i + 1] >= Scores(t)[j]
                 /\ Reports(t, [disease |-> r.disease,
                                confidence |-> r.confidence], i)]_vars

\* a call has returned the last class of a network of several classes as
\* the disease, ahead of a less likely one
C14_Witness ==
  \E t \in Threads :
     /\ Finished(t) /\ result[t].success
     /\ Self(t).num_classes >= 3
     /\ result[t].disease = Self(t).class_names[Self(t).num_classes]
     /\ result[t].top_predictions[2].confidence < result[t].confidence

\* what predict reads of a predictor to decide and compute its answer
Frame(p) == <<p.is_loaded, p.load_error, p.model, p.class_names,
              p.gradcam_layer, p.num_classes>>

\* C15: no step of any predict call, returning a prediction, returning a
\* failure or raising, changes is_loaded, load_error, the model, the class
\* label list or the Grad-CAM layer of a predictor that exists, and a call
\* that returns leaves no hook of its own on that layer: the predictor is
\* as it was before the call.
C15_PredictFrame ==
  [][\A o \in Built :
       /\ Len(objs') >= Len(objs)
       /\ Frame(objs'[o]) = Frame(objs[o])
       /\ \A t \in Threads :
            (Returns(t) /\ predictor[t] = o) =>
               \A h \in objs'[o].hooks : h[1] # CallId(t)]_vars

\* the candidate the search is to return: the earlier one when both exist
FirstCandidate ==
  IF 1 \in files THEN "sparsha_exp4_B4_epoch_19.pt"
  ELSE IF 2 \in files THEN "sparsha_exp4_epoch_19.pt"
  ELSE None

NotFoundText ==
  "Model file not found. Expected one of: sparsha_exp4_B4_epoch_19.pt, sparsha_exp4_epoch_19.pt"

\* C16: the constructor keeps the first existing candidate file, and when
\* no candidate exists it returns an unloaded predictor (is_loaded false, no
\* model) whose load_error is the "Model file not found" message.
C16_ModelFileNotFound ==
  \A o \in Built :
     /\ objs[o].model_path = FirstCandidate
     /\ files = {} =>
          /\ ~objs[o].is_loaded /\ objs[o].model = None
          /\ objs[o].load_error = NotFoundText

\* C16 as amended: the "Model file not found" message is set when no
\* candidate exists and PyTorch could be imported; when PyTorch could not be
\* imported the load error is the "PyTorch is not installed" message,
\* whether or not a candidate exists.  In both cases the constructor
\* returns an unloaded predictor without raising.
C16_ModelFileNotFoundWithTorch ==
  /\ \A t \in Threads : pc[t] # "raised"
  /\ \A o \in Built :
       /\ objs[o].model_path = FirstCandidate
       /\ (files = {} \/ ~TORCH_AVAILABLE) =>
            ~objs[o].is_loaded /\ objs[o].model = None
       /\ (files = {} /\ TORCH_AVAILABLE) => objs[o].load_error = NotFoundText
       /\ ~TORCH_AVAILABLE =>
            objs[o].load_error = "PyTorch is not installed: No module named 'torch'"

\* get_predictor has returned a predictor built with PyTorch present and no
\* candidate file on disk
C16_Witness ==
  /\ files = {} /\ TORCH_AVAILABLE
  /\ \E t \in Threads :
       /\ pc[t] = "p_call"
       /\ Self(t).load_error = NotFoundText

\* C17: _preprocess returns None for empty bytes and for bytes that do not
\* decode, and for a decodable image of any size, mode and orientation it
\* returns a batch of one image with 3 channels of 380 by 380; it raises in
\* no case.
C17_PreprocessShape ==
  pc[1] = "pre_done" =>
    /\ image_bytes[1].kind \in {"empty", "garbage"} => batch[1] = NoTuple
    /\ image_bytes[1].kind = "image" =>
         /\ batch[1] # NoTuple
         /\ batch[1][1].shape = <<1, 3, 380, 380>>

\* a one-pixel image that is not RGB has been preprocessed
C17_Witness ==
  /\ pc[1] = "pre_done"
  /\ image_bytes[1].kind = "image"
  /\ image_bytes[1].size = <<1, 1>> /\ image_bytes[1].mode = "L"
  /\ batch[1] # NoTuple

\* C18: a loaded predictor has as many class labels as its classifier has
\* outputs, and every class a call ranks has an index inside the label
\* list and the label the list holds at that index.
C18_LabelsMatchOutputs ==
  /\ \A o \in Built :
       objs[o].is_loaded => Len(objs[o].class_names) = objs[o].num_classes
  /\ \A t \in Threads :
       top[t] # NoTop =>
         /\ top[t].class_idx \in 0..(Len(Self(t).class_names) - 1)
         /\ Len(Scores(t)) = Len(Self(t).class_names)
         /\ \A r \in 1..Len(top[t].top_predictions) :
              \E i \in 0..(Len(Self(t).class_names) - 1) :
                 Reports(t, top[t].top_predictions[r], i)

\* a call has ranked first the last class of a network that has more
\* classes than the default label list names
C18_Witness ==
  \E t \in Threads :
     /\ top[t] # NoTop
     /\ Self(t).num_classes > Len(DEFAULT_CLASS_NAMES)
     /\ top[t].class_idx = Self(t).num_classes - 1

RECURSIVE NamesByIndex(_)
\* the names of the <<index, name>> entries of an index->name mapping, by
\* ascending index; entries of equal index keep their order
NamesByIndex(entries) ==
  IF entries = <<>> THEN <<>>
  ELSE LET low == CHOOSE i \in 1..Len(entries) :
                    \A j \in 1..Len(entries) :
                       \/ entries[i][1] < entries[j][1]
                       \/ entries[i][1] = entries[j][1] /\ i <= j
       IN <<entries[low][2]>> \o NamesByIndex(Remove(entries, low))

\* the metadata a checkpoint offers for its labels: the value under the
\* first probed key that holds a list, or a dict whose items sorted() can
\* order
LabelData(obj) ==
  LET usable == { k \in 1..Len(meta_keys) :
                    /\ Has(obj, meta_keys[k])
                    /\ \/ Get(obj, meta_keys[k]).tag = "list"
                       \/ /\ Get(obj, meta_keys[k]).tag = "dict"
                          /\ Sortable(Get(obj, meta_keys[k])) }
  IN IF obj.tag # "dict" \/ usable = {} THEN Other
     ELSE Get(obj, meta_keys[CHOOSE k \in usable : \A l \in usable : k <= l])

\* the label list the claim describes for a checkpoint: a mapping from
\* indices to names gives its names by ascending index, a mapping from
\* names to indices its names by ascending index likewise
ExpectedNames(obj) ==
  LET data == LabelData(obj)
      names == IF data.tag = "list" THEN data.items
               ELSE IF data.tag = "dict"
               THEN IF data.ktype = "int" /\ data.vtype = "str"
                    THEN NamesByIndex(data.entries)
                    ELSE KeysByValue(data)
               ELSE <<>>
  IN IF names = <<>> THEN DEFAULT_CLASS_NAMES ELSE names

\* C19: the label list a predictor starts from is the names of the
\* checkpoint's label mapping in ascending index order, or the checkpoint's
\* name list as it is, or the default list when the checkpoint offers
\* neither.
C19_LabelRecovery ==
  \A o \in Built :
     (TORCH_AVAILABLE /\ files # {} /\ checkpoint.raises = None) =>
        /\ NamesBefore(NewPredictor, checkpoint.obj) = ExpectedNames(checkpoint.obj)
        /\ ~Parsed => objs[o].class_names = ExpectedNames(checkpoint.obj)
        /\ Accepted => objs[o].class_names =
                         Reconcile(ExpectedNames(checkpoint.obj), objs[o].num_classes)
        /\ (Parsed /\ ~Accepted) =>
               objs[o].class_names =
                  Reconcile(ExpectedNames(checkpoint.obj),
                            NumClasses(ExpectedNames(checkpoint.obj),
                                       extract_state_dict(checkpoint.obj)))

\* the wrapper holds a mapping under the key
Holds(obj, key) == Has(obj, <<key>>) /\ Get(obj, <<key>>).tag = "dict"

\* the mapping the claim selects from an unpickled dict
SelectedMapping(obj) ==
  IF Holds(obj, "state_dict") THEN Get(obj, <<"state_dict">>)
  ELSE IF Holds(obj, "model_state_dict") THEN Get(obj, <<"model_state_dict">>)
  ELSE IF Holds(obj, "model") THEN Get(obj, <<"model">>)
  ELSE IF Holds(obj, "net") THEN Get(obj, <<"net">>)
  ELSE obj

\* two values of a mapping are the same object: equal, or both the list
\* that lines 172..173 may have grown in place since the mapping was read
SameValue(a, b) == a = b \/ (a.tag = "list" /\ b.tag = "list")

\* two mappings have the same keys in the same order and the same value
\* under each
SameParameters(a, b) ==
  /\ Len(a.entries) = Len(b.entries)
  /\ \A e \in 1..Len(a.entries) :
       /\ a.entries[e][1] = b.entries[e][1]
       /\ SameValue(a.entries[e][2], b.entries[e][2])

\* shape[0] of the classifier weight of a mapping saved with or without the
\* DataParallel prefix, of the classifier bias when it has no such weight,
\* NoCount when it has neither
CountIn(mapping) == infer_num_classes(strip_module_prefix(mapping))

\* C20: the parameters are taken from the mapping under the first of
\* state_dict, model_state_dict, model, net that the unpickled dict holds,
\* from the dict itself when it holds none of them, and an unpickled object
\* that is not a dict leaves the predictor unloaded with a load error.
C20_StateDictPriority ==
  /\ \A t \in Threads : pc[t] # "raised"
  /\ \A o \in Built :
       (TORCH_AVAILABLE /\ files # {} /\ checkpoint.raises = None) =>
          IF checkpoint.obj.tag = "dict"
          THEN /\ extract_state_dict(checkpoint.obj)
                    = strip_module_prefix(SelectedMapping(checkpoint.obj))
               /\ SameParameters(objs[o].params,
                                 strip_module_prefix(SelectedMapping(checkpoint.obj)))
               /\ Accepted => objs[o].is_loaded
               /\ (Accepted /\ CountIn(SelectedMapping(checkpoint.obj)) # NoCount) =>
                    objs[o].num_classes = CountIn(SelectedMapping(checkpoint.obj))
          ELSE /\ ~objs[o].is_loaded /\ objs[o].model = None
               /\ objs[o].load_error = "Checkpoint did not contain a state_dict"

\* a predictor was built from a wrapper that holds mappings of different
\* class counts under two of the keys, with the count of the first
C20_Witness ==
  \E o \in 1..Len(objs) :
     /\ checkpoint.raises = None /\ checkpoint.obj.tag = "dict"
     /\ Holds(checkpoint.obj, "model") /\ Holds(checkpoint.obj, "net")
     /\ CountIn(Get(checkpoint.obj, <<"model">>)) # CountIn(Get(checkpoint.obj, <<"net">>))
     /\ objs[o].is_loaded
     /\ objs[o].num_classes = CountIn(Get(checkpoint.obj, <<"model">>))

\* the key begins with "module."
Prefixed(key) == Len(key) >= 2 /\ key[1] = "module"

\* the key without its leading "module."
WithoutPrefix(key) == IF Prefixed(key) THEN SubSeq(key, 2, Len(key)) ELSE key

\* C21: the mapping given to load_state_dict has, for every key of the
\* mapping taken from the checkpoint, that key without one leading "module."
\* and nothing else; each item keeps its value (the later item where two
\* keys become equal), and a mapping without a prefixed key is passed on as
\* it is.
C21_StripPrefix ==
  \A o \in Built :
     Parsed =>
       LET given == SelectedMapping(checkpoint.obj).entries
           cleaned == objs[o].params.entries
       IN /\ { cleaned[i][1] : i \in 1..Len(cleaned) }
               = { WithoutPrefix(given[i][1]) : i \in 1..Len(given) }
          /\ \A i, j \in 1..Len(cleaned) : cleaned[i][1] = cleaned[j][1] => i = j
          /\ \A i \in 1..Len(given) :
               (\A j \in (i + 1)..Len(given) :
                   WithoutPrefix(given[j][1]) # WithoutPrefix(given[i][1])) =>
                 \E k \in 1..Len(cleaned) :
                    /\ cleaned[k][1] = WithoutPrefix(given[i][1])
                    /\ SameValue(cleaned[k][2], given[i][2])
          /\ (\A i \in 1..Len(given) : ~Prefixed(given[i][1])) =>
               SameParameters(objs[o].params, SelectedMapping(checkpoint.obj))

\* a model was loaded from a mapping with a doubled prefix, and the key it
\* was given still carries one "module."
C21_Witness ==
  \E o \in 1..Len(objs) :
     /\ Parsed /\ objs[o].is_loaded
     /\ Has(SelectedMapping(checkpoint.obj),
            <<"module", "module", "classifier", "1", "weight">>)
     /\ Has(objs[o].params, <<"module", "classifier", "1", "weight">>)
     /\ Has(objs[o].params, <<"features", "module", "1", "weight">>)

\* _generate_gradcam cannot run on the predictor of thread t
Unavailable(t) ==
  \/ ~(TORCH_AVAILABLE /\ MATPLOTLIB_AVAILABLE)
  \/ Self(t).model = None
  \/ Self(t).gradcam_layer = None

\* positions of _generate_gradcam after its checks
GradcamBody == {"g_reg_fwd", "g_reg_bwd", "g_pass", "g_render", "g_finally"}

\* C22: where matplotlib is unavailable or the model or the Grad-CAM layer
\* is missing, a call never gets past the checks of the generator, attaches
\* no hook and runs the model once at most (the forward pass of predict),
\* and a call that asked for the overlay and reached the generator returns
\* success with gradcam_image None.
C22_GradcamUnavailable ==
  /\ [](\A t \in Threads :
          (predictor[t] # NoRef /\ Unavailable(t)) =>
             /\ pc[t] \notin GradcamBody
             /\ \A h \in Self(t).hooks : h[1] # CallId(t)
             /\ trace[t].model_calls <= 1)
  /\ [][\A t \in Threads :
          (pc[t] = "g_check" /\ pc'[t] # "g_check" /\ Unavailable(t)) =>
             pc'[t] = "p_return"]_vars
  /\ [][\A t \in Threads :
          (Returns(t) /\ pc[t] = "p_return" /\ Unavailable(t)) =>
             /\ result'[t].success
             /\ result'[t].gradcam_image = NoImage]_vars

\* a call that asked for the overlay is back from the generator on a
\* predictor without a Grad-CAM layer, having run the model once
C22_Witness ==
  \E t \in Threads :
     /\ pc[t] = "p_return" /\ include_gradcam[t]
     /\ TORCH_AVAILABLE /\ MATPLOTLIB_AVAILABLE
     /\ Self(t).gradcam_layer = None
     /\ trace[t].model_calls = 1

\* positions inside predict, its arguments bound
InPredict == {"p_loaded", "p_preprocess", "p_lock"} \cup LockedSection

\* C23: the generator is entered only by a call with include_gradcam true
\* whose ranking is done, and its target class is the class whose label the
\* call returns as disease; a call with include_gradcam false attaches no
\* hook, runs the model once at most and returns gradcam_image None.
C23_SaliencyTarget ==
  /\ [](\A t \in Threads :
          /\ pc[t] \in {"g_check"} \cup GradcamBody =>
               /\ include_gradcam[t]
               /\ top[t] # NoTop
               /\ Self(t).class_names[top[t].class_idx + 1]
                    = top[t].top_predictions[1].disease
          /\ (pc[t] \in InPredict /\ ~include_gradcam[t]) =>
               /\ \A h \in Self(t).hooks : h[1] # CallId(t)
               /\ trace[t].model_calls <= 1
               /\ gradcam_image[t] = NoImage)
  /\ [][\A t \in Threads :
          (Returns(t) /\ result'[t].success) =>
             /\ ~include_gradcam[t] => result'[t].gradcam_image = NoImage
             /\ result'[t].gradcam_image # NoImage =>
                  Self(t).class_names[result'[t].gradcam_image[3] + 1]
                    = result'[t].disease]_vars

\* a call has returned an overlay for the last class of the network
C23_Witness ==
  \E t \in Threads :
     /\ Finished(t) /\ result[t].success
     /\ result[t].gradcam_image # NoImage
     /\ result[t].gradcam_image[3] = Self(t).num_classes - 1
     /\ result[t].disease = Self(t).class_names[Self(t).num_classes]

\* the map behind the overlay the running call of thread t renders
CamOf(t) == Cam(Self(t).model, batch[t], top[t].class_idx)

\* C24: every value of the normalized map of a returned overlay lies
\* between 0 and 1, the least value of the map goes to 0, and for a flat map
\* every normalized value is 0 and the overlay is returned all the same.
C24_NormalizedMap ==
  [][\A t \in Threads :
       (Returns(t) /\ result'[t].success /\ result'[t].gradcam_image # NoImage) =>
          LET heat == result'[t].gradcam_image[4]
          IN /\ Len(heat) = Len(CamOf(t))
             /\ \A i \in 1..Len(heat) :
                  /\ heat[i] \in 0..HeatScale
                  /\ (\A j \in 1..Len(heat) : CamOf(t)[i] <= CamOf(t)[j]) => heat[i] = 0
                  /\ \A j \in 1..Len(heat) :
                       CamOf(t)[i] <= CamOf(t)[j] => heat[i] <= heat[j]
             /\ (\A i, j \in 1..Len(heat) : CamOf(t)[i] = CamOf(t)[j]) =>
                  \A i \in 1..Len(heat) : heat[i] = 0]_vars

\* a call has returned the overlay of a flat map that is not zero
C24_Witness ==
  \E t \in Threads :
     /\ Finished(t) /\ result[t].success
     /\ result[t].gradcam_image # NoImage
     /\ Self(t).model = "uniform"
     /\ result[t].gradcam_image[4] = <<0, 0, 0, 0>>

\* C25: the probabilities of the forward pass of a running call are each
\* between 0 and 1 and sum to 1 within the rounding of one unit per class.
C25_ProbabilitiesSumToOne ==
  \A t \in Threads :
     pc[t] \in {"p_topk", "g_check", "g_reg_fwd", "g_reg_bwd", "g_pass", "g_render",
              "g_finally", "p_return"} =>
        /\ Len(Scores(t)) = Self(t).num_classes
        /\ \A i \in 1..Len(Scores(t)) : Scores(t)[i] \in 0..Scale
        /\ Scale - SeqSum(Scores(t)) \in 0..Len(Scores(t))

\* a call holds probabilities of several classes whose exponentials do not
\* sum to a divisor of the scale, so that rounding shows
C25_Witness ==
  \E t \in Threads :
     /\ pc[t] = "p_topk"
     /\ Self(t).model = "ramp"
     /\ Len(Scores(t)) > 1
     /\ SeqSum(Scores(t)) < Scale

\* the predictor object p is loaded: flag, network, no load error
IsLoaded(p) == p.is_loaded /\ p.model # None /\ p.load_error = None

\* the predictor object p is unloaded with its load error set
IsUnloaded(p) == ~p.is_loaded /\ p.load_error # None

\* C26: every predictor the constructor has returned is, then and in every
\* later state, either loaded (is_loaded, network present, no load error)
\* or unloaded with load_error set, never both and never neither; without
\* PyTorch, without a model file, with a checkpoint torch.load cannot read,
\* with one that holds no parameter mapping and with one the network does
\* not take it is unloaded, and otherwise it is loaded.
C26_LoadedOrLoadError ==
  \A o \in Built :
     /\ IsLoaded(objs[o]) # IsUnloaded(objs[o])
     /\ IsLoaded(objs[o]) <=> Accepted
     /\ IsUnloaded(objs[o]) => objs[o].model = None

\* predict has returned on a predictor whose network did not take the
\* tensors of the checkpoint, and the predictor carries the load error
C26_Witness ==
  \E t \in Threads :
     /\ Finished(t) /\ predictor[t] # NoRef
     /\ Parsed /\ ~Accepted
     /\ IsUnloaded(Self(t))
     /\ Self(t).load_error = SIZE_MISMATCH

\* C27: predict goes from the loaded-state check to decoding and from
\* decoding to the lock, in that order and only on a loaded predictor; a
\* call on an unloaded predictor with empty or undecodable bytes returns
\* the failure that carries the load error, not "Could not read image".
C27_CheckOrder ==
  [][\A t \in Threads :
       /\ (pc'[t] = "p_preprocess" /\ pc[t] # "p_preprocess") =>
             (pc[t] = "p_loaded" /\ Loaded(t))
       /\ (pc'[t] = "p_lock" /\ pc[t] # "p_lock") =>
             (pc[t] = "p_preprocess" /\ Loaded(t))
       /\ (pc'[t] = "p_forward" /\ pc[t] # "p_forward") => pc[t] = "p_lock"
       /\ (Returns(t) /\ Unloaded(t) /\ image_bytes[t] \in {"empty", "corrupt"}) =>
             /\ pc[t] = "p_loaded"
             /\ result'[t] = Failure(PyOr(Self(t).load_error, "Model is not loaded"))
             /\ result'[t].error # CouldNotRead]_vars

\* a call with undecodable bytes stands at the loaded-state check of an
\* unloaded predictor, from which another call has returned the load error
C27_Witness ==
  \E t, u \in Threads :
     /\ pc[t] = "p_loaded" /\ Unloaded(t) /\ image_bytes[t] = "corrupt"
     /\ Finished(u) /\ predictor[u] = predictor[t]
     /\ Self(t).load_error = "Checkpoint did not contain a state_dict"
     /\ result[u] = Failure("Checkpoint did not contain a state_dict")
     /\ trace[t] = NoTrace

\* C28: the instance variable and every reference a get_predictor call has
\* returned name a predictor whose constructor has returned, a caller that
\* is past get_predictor holds such a reference, and no later step changes
\* is_loaded, load_error or the class labels of that predictor.
C28_FullyConstructed ==
  /\ [](/\ PREDICTOR_INSTANCE # NoRef => PREDICTOR_INSTANCE \in Built
        /\ \A t \in Threads :
             /\ predictor[t] # NoRef => predictor[t] \in Built
             /\ pc[t] \notin InGetPredictor \cup {"idle", "raised"} =>
                  predictor[t] # NoRef)
  /\ [][\A o \in 1..Len(objs) :
          (o = PREDICTOR_INSTANCE \/ \E t \in Threads : predictor[t] = o) =>
             /\ objs'[o].is_loaded = objs[o].is_loaded
             /\ objs'[o].load_error = objs[o].load_error
             /\ objs'[o].class_names = objs[o].class_names]_vars

\* one caller has the loaded instance from the fast path while the caller
\* that built it is still inside the initialization lock
C28_Witness ==
  \E t, u \in Threads :
     /\ pc[t] = "p_call" /\ pc[u] = "gp_unlock" /\ PREDICTOR_LOCK = u
     /\ predictor[t] = PREDICTOR_INSTANCE /\ predictor[t] \in Built
     /\ predictor[u] = NoRef
     /\ Self(t).is_loaded

\* thread t holds the lock of some predictor
HoldsInferenceLock(t) == \E o \in 1..Len(objs) : objs[o].lock = t

\* C29: a thread that is outside the locked section of predict, whichever
\* way it left it, holds no inference lock; no thread holds the
\* initialization lock and an inference lock together; and with passes that
\* terminate and a lock granted fairly every call that waits for the lock
\* gets it and every predict call returns.
C29_LockReleasedAndProgress ==
  /\ [](\A t \in Threads :
          /\ pc[t] \notin LockedSection => ~HoldsInferenceLock(t)
          /\ ~(PREDICTOR_LOCK = t /\ HoldsInferenceLock(t))
          /\ pc[t] \in LockedSection => Self(t).lock = t)
  /\ \A t \in Threads :
       /\ (pc[t] = "p_lock") ~> (pc[t] = "p_forward")
       /\ (pc[t] \in {"p_call"} \cup InPredict) ~> (pc[t] = "idle")

\* one call waits for the lock that another call, whose overlay came back
\* null, holds at its return
C29_Witness ==
  \E t, u \in Threads :
     /\ pc[t] = "p_lock" /\ pc[u] = "p_return"
     /\ predictor[t] = predictor[u] /\ Self(u).lock = u
     /\ include_gradcam[u] /\ gradcam_image[u] = NoImage

\* the overlay a call that runs alone on predictor p gets for a decoded
\* image when its hooks have captured its own passes
OverlayAlone(p, image, class_idx) ==
  Overlay(image, class_idx, Normalize(Cam(p.model, image, class_idx)))

\* The results predict can return when it is the only call running on the
\* loaded predictor p, for the given bytes and flag: the decoding failure,
\* the failure of an exception raised inside the locked section, or the
\* prediction for the image, with the overlay of the image or with none.
AloneResults(p, image, flag) ==
  LET Overlays(ranked) ==
        IF flag /\ TORCH_AVAILABLE /\ MATPLOTLIB_AVAILABLE /\ p.gradcam_layer # None
        THEN {NoImage, OverlayAlone(p, image, ranked.class_idx)}
        ELSE {NoImage}
  IN {Failure(CouldNotRead)} \cup {Failure(ErrorText(msg)) : msg \in ExcMsgs}
     \cup IF image \notin ValidImages THEN {}
          ELSE UNION { { [ success         |-> TRUE,
                           disease         |-> ranked.top_predictions[1].disease,
                           confidence      |-> ranked.top_predictions[1].confidence,
                           method          |-> p.method_id,
                           model_name      |-> p.method_name,
                           top_predictions |-> ranked.top_predictions,
                           gradcam_image   |-> g ] : g \in Overlays(ranked) } :
                       ranked \in Rank(p, Forward(p.model, image, p.num_classes)) }

\* C30: whatever other calls run at the same time, a predict call on a
\* loaded predictor returns a result it can return when it runs alone on
\* the same bytes and flag, and the activations and gradients in the lists
\* of a call come from the passes of that call only.
C30_NoInterference ==
  /\ [](\A t \in Threads :
          /\ \A i \in 1..Len(trace[t].activations) :
               /\ trace[t].activations[i].by = CallId(t)
               /\ trace[t].activations[i].image = batch[t]
          /\ \A i \in 1..Len(trace[t].gradients) :
               /\ trace[t].gradients[i].by = CallId(t)
               /\ trace[t].gradients[i].class_idx = top[t].class_idx)
  /\ [][\A t \in Threads :
          (Returns(t) /\ Loaded(t)) =>
             /\ result'[t] \in AloneResults(Self(t), image_bytes[t], include_gradcam[t])
             /\ (result'[t].success /\ result'[t].gradcam_image # NoImage) =>
                  \E ranked \in Rank(Self(t), Scores(t)) :
                     /\ result'[t].top_predictions = ranked.top_predictions
                     /\ result'[t].gradcam_image
                          = OverlayAlone(Self(t), image_bytes[t], ranked.class_idx)]_vars

\* a call holds the activation and the gradient of its own passes while a
\* call for an overlay of another image waits for the lock
C30_Witness ==
  \E t, u \in Threads :
     /\ pc[t] = "g_render"
     /\ Len(trace[t].activations) = 1 /\ Len(trace[t].gradients) = 1
     /\ pc[u] = "p_lock" /\ predictor[u] = predictor[t]
     /\ include_gradcam[u] /\ batch[u] # batch[t]

====
